---- MODULE Spec2Model ----
(***************************************************************************)
(* Model of the filesystem node abstraction of ts-instrumentality          *)
(* (src/src/road.ts, with the older src/src/node.ts where the two differ). *)
(*                                                                         *)
(* The host filesystem is a tree: a function from canonical paths          *)
(* (sequences of names, <<>> is the root) to entries.  The node:fs calls   *)
(* the library makes (access, lstat, unlink, rename, ...) are operators on *)
(* that tree which follow POSIX path resolution, symbolic links included.  *)
(* A Road instance is a record (class, pointsTo, mutable).  rt holds what  *)
(* the JavaScript runtime keeps beside the instances: generator frames,    *)
(* pending async calls, watchers and their queued events.                  *)
(***************************************************************************)
EXTENDS Integers, Sequences, FiniteSets, TLC

VARIABLES fs, nodes, last, budget, rt

vars == <<fs, nodes, last, budget, rt>>

(***************************************************************************)
(* Bounds of the model.                                                    *)
(***************************************************************************)
\* symbolic links followed in one path resolution before ELOOP
LinkFuel == 3
\* calls made in one run of SpecFs
MaxSteps == 2

(***************************************************************************)
(* Paths (node:path, POSIX flavour).                                       *)
(***************************************************************************)
Root == <<>>

\* a path string as the caller writes it: absolute or relative, with segments
Raw(abs, segs) == [abs |-> abs, segs |-> segs]

NoTarget == Raw(FALSE, <<>>)

\* process.cwd() of the run
cwd == <<"a">>

Parent(p) == IF p = <<>> THEN <<>> ELSE SubSeq(p, 1, Len(p) - 1)

IsPrefix(a, b) == Len(a) <= Len(b) /\ SubSeq(b, 1, Len(a)) = a

RECURSIVE Norm(_, _)
Norm(acc, segs) ==
  IF segs = <<>> THEN acc
  ELSE LET s == Head(segs) IN
       IF s = "." \/ s = "" THEN Norm(acc, Tail(segs))
       ELSE IF s = ".." THEN Norm(Parent(acc), Tail(segs))
       ELSE Norm(Append(acc, s), Tail(segs))

\* ph.normalize applied to an absolute path
Normalize(segs) == Norm(<<>>, segs)

IsNormalized(p) == \A i \in 1..Len(p) : p[i] \notin {".", "..", ""}

\* ph.resolve(_lookFor)
resolve(raw) == Normalize((IF raw.abs THEN <<>> ELSE cwd) \o raw.segs)

\* ph.resolve(dir, linkPath)
resolve2(dir, raw) == Normalize((IF raw.abs THEN <<>> ELSE dir) \o raw.segs)

\* ph.join(this.isAt, ..._paths)
join(p, segs) == Normalize(p \o segs)

\* ph.basename(this.isAt)
basename(p) == IF p = <<>> THEN "" ELSE p[Len(p)]

\* ph.dirname(this.isAt)
dirname(p) == Parent(p)

(***************************************************************************)
(* The filesystem tree and path resolution.                                *)
(***************************************************************************)
Kinds == {"file", "dir", "blk", "chr", "link", "fifo", "sock"}

FileE(data) == [kind |-> "file", data |-> data, target |-> NoTarget]
DirE == [kind |-> "dir", data |-> <<>>, target |-> NoTarget]
LinkE(t) == [kind |-> "link", data |-> <<>>, target |-> t]
SpecialE(k) == [kind |-> k, data |-> <<>>, target |-> NoTarget]

Subtree(f, p) == {q \in DOMAIN f : IsPrefix(p, q)}

Children(f, p) == {q \in DOMAIN f : Len(q) = Len(p) + 1 /\ IsPrefix(p, q)}

Remove(f, S) == [q \in (DOMAIN f) \ S |-> f[q]]

Put(f, p, e) == [q \in (DOMAIN f) \cup {p} |-> IF q = p THEN e ELSE f[q]]

\* the subtree of f at p, with paths relative to p
TreeAt(f, p) ==
  [q \in {SubSeq(x, Len(p) + 1, Len(x)) : x \in Subtree(f, p)} |-> f[p \o q]]

\* Resolution of segs from directory cur.  follow: whether a symbolic link in
\* the final component is followed (access, open) or not (lstat, unlink,
\* rename, readlink).  Result: err, the canonical place at, and final (the
\* failure, if any, is a missing final component).
RECURSIVE Walk(_, _, _, _, _)
Walk(f, cur, segs, follow, fuel) ==
  IF segs = <<>> THEN [err |-> "OK", at |-> cur, final |-> TRUE]
  ELSE LET s == Head(segs)
           rest == Tail(segs)
           q == Append(cur, s)
       IN IF s = "." \/ s = "" THEN Walk(f, cur, rest, follow, fuel)
          ELSE IF s = ".." THEN Walk(f, Parent(cur), rest, follow, fuel)
          ELSE IF q \notin DOMAIN f
            THEN [err |-> "ENOENT", at |-> q, final |-> rest = <<>>]
          ELSE IF f[q].kind = "link" /\ (rest # <<>> \/ follow)
            THEN IF fuel = 0
                   THEN [err |-> "ELOOP", at |-> q, final |-> FALSE]
                   ELSE Walk(f, IF f[q].target.abs THEN <<>> ELSE cur,
                             f[q].target.segs \o rest, follow, fuel - 1)
          ELSE IF rest = <<>> THEN [err |-> "OK", at |-> q, final |-> TRUE]
          ELSE IF f[q].kind = "dir" THEN Walk(f, q, rest, follow, fuel)
          ELSE [err |-> "ENOTDIR", at |-> q, final |-> FALSE]

\* resolution of an absolute path
Lookup(f, p, follow) == Walk(f, <<>>, p, follow, LinkFuel)

\* resolution of a path string as written, relative ones from cwd
LookupRaw(f, raw, follow) ==
  IF raw.abs THEN Walk(f, <<>>, raw.segs, follow, LinkFuel)
  ELSE Walk(f, <<>>, cwd \o raw.segs, follow, LinkFuel)

(***************************************************************************)
(* The node:fs calls the library makes.  Each takes the tree and gives     *)
(* err ("OK" or an errno code) and, for a call that writes, the new tree.  *)
(***************************************************************************)
Res(err, f) == [err |-> err, fs |-> f]

\* fs.accessSync(p, F_OK) / fp.access / fs.existsSync: follows symbolic links
sys_access(f, raw) == LookupRaw(f, raw, TRUE).err

\* fs.lstatSync(p).mode: does not follow a final symbolic link
sys_lstat(f, p) ==
  LET r == Lookup(f, p, FALSE)
  IN [err |-> r.err, kind |-> IF r.err = "OK" THEN f[r.at].kind ELSE "none"]

\* fs.unlinkSync / fp.unlink
sys_unlink(f, p) ==
  LET r == Lookup(f, p, FALSE)
  IN IF r.err # "OK" THEN Res(r.err, f)
     ELSE IF f[r.at].kind = "dir" THEN Res("EISDIR", f)
     ELSE Res("OK", Remove(f, {r.at}))

\* fs.rmdirSync(p, {recursive: true}) / fp.rmdir(p, {recursive: true})
sys_rmdir_recursive(f, p) ==
  LET r == Lookup(f, p, FALSE)
  IN IF r.err # "OK" THEN Res(r.err, f)
     ELSE IF f[r.at].kind # "dir" THEN Res("ENOTDIR", f)
     ELSE IF r.at = Root THEN Res("EBUSY", f)
     ELSE Res("OK", Remove(f, Subtree(f, r.at)))

\* fs.renameSync(old, new) / fp.rename: rename(2)
sys_rename(f, old, new) ==
  LET ro == Lookup(f, old, FALSE)
      rn == Lookup(f, new, FALSE)
  IN IF ro.err # "OK" THEN Res(ro.err, f)
     ELSE IF rn.err # "OK" /\ ~(rn.err = "ENOENT" /\ rn.final) THEN Res(rn.err, f)
     ELSE IF ro.at = Root \/ rn.at = Root THEN Res("EBUSY", f)
     ELSE IF rn.at = ro.at THEN Res("OK", f)
     ELSE IF IsPrefix(ro.at, rn.at) THEN Res("EINVAL", f)
     ELSE IF rn.err = "OK" /\ f[ro.at].kind = "dir" /\ f[rn.at].kind # "dir"
       THEN Res("ENOTDIR", f)
     ELSE IF rn.err = "OK" /\ f[ro.at].kind = "dir" /\ Children(f, rn.at) # {}
       THEN Res("ENOTEMPTY", f)
     ELSE IF rn.err = "OK" /\ f[ro.at].kind # "dir" /\ f[rn.at].kind = "dir"
       THEN Res("EISDIR", f)
     ELSE LET moved == Subtree(f, ro.at)
              kept == (DOMAIN f) \ (moved \cup Subtree(f, rn.at))
              to(q) == rn.at \o SubSeq(q, Len(ro.at) + 1, Len(q))
              back(q) == ro.at \o SubSeq(q, Len(rn.at) + 1, Len(q))
          IN Res("OK", [q \in kept \cup {to(x) : x \in moved} |->
                          IF q \in kept THEN f[q] ELSE f[back(q)]])

\* fs.writeFileSync(p, data) (flag 'w') and fs.appendFileSync (flag 'a')
sys_write(f, p, data, append) ==
  LET r == Lookup(f, p, TRUE)
  IN IF r.err = "OK" THEN
       IF f[r.at].kind = "file"
         THEN Res("OK", Put(f, r.at,
                  FileE(IF append THEN f[r.at].data \o data ELSE data)))
       ELSE IF f[r.at].kind = "dir" THEN Res("EISDIR", f)
       ELSE Res("ENXIO", f)
     ELSE IF r.err = "ENOENT" /\ r.final THEN Res("OK", Put(f, r.at, FileE(data)))
     ELSE Res(r.err, f)

\* fs.readFileSync(p) / fp.readFile
sys_read(f, p) ==
  LET r == Lookup(f, p, TRUE)
  IN IF r.err # "OK" THEN [err |-> r.err, data |-> <<>>]
     ELSE IF f[r.at].kind = "file" THEN [err |-> "OK", data |-> f[r.at].data]
     ELSE IF f[r.at].kind = "dir" THEN [err |-> "EISDIR", data |-> <<>>]
     ELSE [err |-> "ENXIO", data |-> <<>>]

\* fs.copyFileSync(src, dst) / fp.copyFile (libuv: same file is a no-op)
sys_copyFile(f, src, dst) ==
  LET rs == Lookup(f, src, TRUE)
      rd == Lookup(f, dst, TRUE)
  IN IF rs.err # "OK" THEN Res(rs.err, f)
     ELSE IF f[rs.at].kind = "dir" THEN Res("EISDIR", f)
     ELSE IF f[rs.at].kind # "file" THEN Res("ENXIO", f)
     ELSE IF rd.err = "OK" /\ rd.at = rs.at THEN Res("OK", f)
     ELSE sys_write(f, dst, f[rs.at].data, FALSE)

\* fs.symlinkSync(target, p) / fp.symlink
sys_symlink(f, target, p) ==
  LET r == Lookup(f, p, FALSE)
  IN IF r.err = "OK" THEN Res("EEXIST", f)
     ELSE IF r.err = "ENOENT" /\ r.final /\ (target.abs \/ target.segs # <<>>)
       THEN Res("OK", Put(f, r.at, LinkE(target)))
     ELSE Res(r.err, f)

\* fs.readlinkSync(p) / fp.readlink
sys_readlink(f, p) ==
  LET r == Lookup(f, p, FALSE)
  IN IF r.err # "OK" THEN [err |-> r.err, target |-> NoTarget]
     ELSE IF f[r.at].kind # "link" THEN [err |-> "EINVAL", target |-> NoTarget]
     ELSE [err |-> "OK", target |-> f[r.at].target]


\* fs.mkdirSync(p, {recursive: true}): every missing directory of p is made
RECURSIVE MkdirP(_, _, _)
MkdirP(f, p, i) ==
  IF i > Len(p) THEN Res("OK", f)
  ELSE LET r == Lookup(f, SubSeq(p, 1, i), TRUE)
       IN IF r.err = "OK" /\ f[r.at].kind = "dir" THEN MkdirP(f, p, i + 1)
          ELSE IF r.err = "OK" THEN Res(IF i = Len(p) THEN "EEXIST" ELSE "ENOTDIR", f)
          ELSE IF r.err = "ENOENT" /\ r.final THEN MkdirP(Put(f, r.at, DirE), p, i + 1)
          ELSE Res(r.err, f)

sys_mkdir_recursive(f, p) == MkdirP(f, p, 1)

\* fs.cpSync(src, dst, {recursive: true}) / fp.cp: directories are merged into
\* existing ones, files and links replace what is there, a relative link is
\* copied with its target made absolute, fifos, sockets and devices are
\* refused; the first failure ends the copy and keeps what was copied so far.
RECURSIVE CpEntry(_, _, _)
RECURSIVE CpChildren(_, _, _, _)
CpChildren(f, names, src, dst) ==
  IF names = {} THEN Res("OK", f)
  ELSE LET n == CHOOSE x \in names : TRUE
           r == CpEntry(f, Append(src, n), Append(dst, n))
       IN IF r.err # "OK" THEN r
          ELSE CpChildren(r.fs, names \ {n}, src, dst)

CpEntry(f, src, dst) ==
  LET rs == Lookup(f, src, FALSE)
      rd == Lookup(f, dst, FALSE)
      there == rd.err = "OK"
  IN IF rs.err # "OK" THEN Res(rs.err, f)
     ELSE IF ~there /\ ~(rd.err = "ENOENT" /\ rd.final) THEN Res(rd.err, f)
     ELSE IF there /\ rd.at = rs.at THEN Res("ERR_FS_CP_EINVAL", f)
     ELSE LET k == f[rs.at].kind IN
       IF k = "dir" THEN
         IF there /\ f[rd.at].kind # "dir" THEN Res("ERR_FS_CP_DIR_TO_NON_DIR", f)
         ELSE IF IsPrefix(rs.at, rd.at) THEN Res("ERR_FS_CP_EINVAL", f)
         ELSE CpChildren(IF there THEN f ELSE Put(f, rd.at, DirE),
                         {basename(c) : c \in Children(f, rs.at)}, rs.at, rd.at)
       ELSE IF there /\ f[rd.at].kind = "dir" THEN Res("ERR_FS_CP_NON_DIR_TO_DIR", f)
       ELSE IF k = "file" THEN Res("OK", Put(f, rd.at, f[rs.at]))
       ELSE IF k = "link" THEN
         IF there /\ f[rd.at].kind # "link" THEN Res("EEXIST", f)
         ELSE Res("OK", Put(f, rd.at,
                LinkE(Raw(TRUE, resolve2(dirname(rs.at), f[rs.at].target)))))
       ELSE IF k = "fifo" THEN Res("ERR_FS_CP_FIFO_PIPE", f)
       ELSE IF k = "sock" THEN Res("ERR_FS_CP_SOCKET", f)
       ELSE Res("ERR_FS_CP_UNKNOWN", f)

sys_cp_recursive(f, src, dst) ==
  LET rp == Lookup(f, dirname(dst), TRUE)
      made == IF rp.err = "OK" THEN Res("OK", f)
              ELSE sys_mkdir_recursive(f, dirname(dst))
  IN IF Lookup(f, src, FALSE).err # "OK" THEN Res(Lookup(f, src, FALSE).err, f)
     ELSE IF made.err # "OK" THEN made
     ELSE CpEntry(made.fs, src, dst)

(***************************************************************************)
(* Road and its classes.                                                   *)
(***************************************************************************)
S_IFMT == 61440
S_IFREG == 32768
S_IFDIR == 16384
S_IFBLK == 24576
S_IFCHR == 8192
S_IFLNK == 40960
S_IFIFO == 4096
S_IFSOCK == 49152

\* the permission bits lstat reports beside the type bits (rw-r--r--)
PermBits == 6 * 64 + 4 * 8 + 4

\* fs.lstatSync(p).mode of an entry of kind k
ModeOf(k) ==
  PermBits + (CASE k = "file" -> S_IFREG [] k = "dir" -> S_IFDIR
                [] k = "blk" -> S_IFBLK [] k = "chr" -> S_IFCHR
                [] k = "link" -> S_IFLNK [] k = "fifo" -> S_IFIFO
                [] k = "sock" -> S_IFSOCK [] OTHER -> 0)

\* faulty variant: the permission bits are kept beside the type bits
MaskFmt_with_perm(mode) == mode % 65536

\* mode & fs.constants.S_IFMT (bits 12..15 of the two's complement of mode)
MaskFmt(mode) == ((mode \div 4096) % 16) * 4096

\* roadType(mode): the class, or "Unknown" where the code throws
roadType(mode) ==
  LET m == MaskFmt(mode)
  IN CASE m = S_IFREG -> "File"
       [] m = S_IFDIR -> "Folder"
       [] m = S_IFBLK -> "BlockDevice"
       [] m = S_IFCHR -> "CharacterDevice"
       [] m = S_IFLNK -> "SymbolicLink"
       [] m = S_IFIFO -> "Fifo"
       [] m = S_IFSOCK -> "Socket"
       [] OTHER -> "Unknown"

\* roadType(path): lstat, then the class of the mode
roadTypeAt(f, p) ==
  LET st == sys_lstat(f, p)
  IN IF st.err # "OK" THEN [err |-> st.err, cls |-> "Unknown"]
     ELSE [err |-> "OK", cls |-> roadType(ModeOf(st.kind))]

Concrete == {"File", "Folder", "BlockDevice", "CharacterDevice",
             "SymbolicLink", "Fifo", "Socket"}

Unusuable == {"BlockDevice", "CharacterDevice", "Fifo", "Socket"}

\* the class hierarchy: the class a class extends ("Road" ends the chain)
Super(c) ==
  CASE c \in {"TempFile", "LiveFile"} -> "File"
    [] c = "TempFolder" -> "Folder"
    [] OTHER -> "Road"

\* x instanceof C for an instance x of class c
InstanceOf(c, C) == c = C \/ Super(c) = C

\* errors: an errno code, or one of the library's own messages, which name a
\* class and a path
Err(code, cls, at) == [code |-> code, cls |-> cls, at |-> at]
NoErr == Err("", "", <<>>)
Errno(code) == Err(code, "", <<>>)

Node(cls, at, mutable) == [cls |-> cls, pointsTo |-> at, mutable |-> mutable]
NoNode == Node("none", <<>>, FALSE)

\* the mutable field a class declares (UnusuableRoad overrides it to false)
DefaultMutable(cls) == cls \notin Unusuable

\* new cls(_lookFor): Road's constructor
Construct(f, cls, raw) ==
  LET a == sys_access(f, raw)
      at == resolve(raw)
      t == roadTypeAt(f, at)
  IN IF a # "OK" THEN [err |-> Errno(a), node |-> NoNode]
     ELSE IF t.err # "OK" THEN [err |-> Errno(t.err), node |-> NoNode]
     ELSE IF t.cls = "Unknown" THEN [err |-> Errno("UnknownMode"), node |-> NoNode]
     ELSE IF ~InstanceOf(cls, t.cls)
       THEN [err |-> Err("TypeMismatch", cls, at), node |-> NoNode]
     ELSE [err |-> NoErr, node |-> Node(cls, at, DefaultMutable(cls))]

\* Road.factory_sync(_lookFor) / Road.factory(_lookFor)
factory(f, raw) ==
  LET a == sys_access(f, raw)
      t == LET r == LookupRaw(f, raw, FALSE)
           IN IF r.err # "OK" THEN [err |-> r.err, cls |-> "Unknown"]
              ELSE [err |-> "OK", cls |-> roadType(ModeOf(f[r.at].kind))]
  IN IF a # "OK" THEN [err |-> Errno(a), node |-> NoNode]
     ELSE IF t.err # "OK" THEN [err |-> Errno(t.err), node |-> NoNode]
     ELSE IF t.cls = "Unknown" THEN [err |-> Errno("UnknownMode"), node |-> NoNode]
     ELSE Construct(f, t.cls, raw)


(***************************************************************************)
(* The methods.  Each gives the outcome of one call on node n with the     *)
(* tree f: the error thrown (NoErr: none), the tree and the node           *)
(* afterwards, the value returned, and the node:fs calls made, in order.   *)
(***************************************************************************)
\* what a call returns: nothing, a boolean, a node, bytes or a stream
Void == [kind |-> "void", bool |-> FALSE, node |-> NoNode, data |-> <<>>]
Bool(b) == [Void EXCEPT !.kind = "boolean", !.bool = b]
Made(n) == [Void EXCEPT !.kind = "node", !.node = n]
Bytes(d) == [Void EXCEPT !.kind = "bytes", !.data = d]
Stream == [Void EXCEPT !.kind = "stream"]

Out(err, f, n, ret, sys) ==
  [err |-> err, fs |-> f, node |-> n, ret |-> ret, sys |-> sys]

Abs(p) == Raw(TRUE, p)

\* faulty variant: the flag is never looked at
assert_mutable_always(n) == TRUE

\* Road.assert_mutable: TRUE when it returns, FALSE when it throws
assert_mutable(n) == n.mutable

ImmutableErr(n) == Err("Immutable", "", n.pointsTo)

\* Road.exists_sync
exists_sync(f, n) ==
  IF sys_access(f, Abs(n.pointsTo)) # "OK"
    THEN Out(NoErr, f, n, Bool(FALSE), <<"access">>)
  ELSE LET t == roadTypeAt(f, n.pointsTo)
       IN IF t.err # "OK" THEN Out(Errno(t.err), f, n, Bool(FALSE), <<"access", "lstat">>)
          ELSE Out(NoErr, f, n, Bool(InstanceOf(n.cls, t.cls)), <<"access", "lstat">>)

\* Road.exists: any failure inside the try block gives false
exists(f, n) ==
  IF sys_access(f, Abs(n.pointsTo)) # "OK"
    THEN Out(NoErr, f, n, Bool(FALSE), <<"access">>)
  ELSE LET t == roadTypeAt(f, n.pointsTo)
       IN Out(NoErr, f, n, Bool(t.err = "OK" /\ InstanceOf(n.cls, t.cls)),
              <<"access", "lstat">>)

\* Road.name
name(n) == basename(n.pointsTo)

\* Road.parent: new Folder(ph.dirname(this.isAt))
parent(f, n) == Construct(f, "Folder", Abs(dirname(n.pointsTo)))

\* faulty variant: the content is added to what the file holds
write_bytes_appends(f, n, content) ==
  IF ~n.mutable THEN Out(ImmutableErr(n), f, n, Void, <<>>)
  ELSE LET r == sys_write(f, n.pointsTo, content, TRUE)
       IN Out(IF r.err = "OK" THEN NoErr ELSE Errno(r.err), r.fs, n, Void,
              <<"writeFile">>)

\* File.write_bytes_sync / write_bytes
write_bytes(f, n, content) ==
  IF ~assert_mutable(n) THEN Out(ImmutableErr(n), f, n, Void, <<>>)
  ELSE LET r == sys_write(f, n.pointsTo, content, FALSE)
       IN Out(IF r.err = "OK" THEN NoErr ELSE Errno(r.err), r.fs, n, Void,
              <<"writeFile">>)

\* File.append_bytes_sync / append_bytes (and append_text once encoded)
append_bytes(f, n, content) ==
  IF ~assert_mutable(n) THEN Out(ImmutableErr(n), f, n, Void, <<>>)
  ELSE LET r == sys_write(f, n.pointsTo, content, TRUE)
       IN Out(IF r.err = "OK" THEN NoErr ELSE Errno(r.err), r.fs, n, Void,
              <<"appendFile">>)

\* File.read_bytes_sync / read_bytes
read_bytes(f, n) ==
  LET r == sys_read(f, n.pointsTo)
  IN Out(IF r.err = "OK" THEN NoErr ELSE Errno(r.err), f, n, Bytes(r.data), <<"readFile">>)

\* A string is its sequence of UTF-16 code units.
IsHigh(u) == u \in 55296..56319

IsLow(u) == u \in 56320..57343

\* the code units of a code point
UnitsOf(cp) ==
  IF cp < 65536 THEN <<cp>>
  ELSE <<55296 + ((cp - 65536) \div 1024), 56320 + ((cp - 65536) % 1024)>>

\* the bytes written for a string with { encoding: "utf-8" }: a surrogate
\* pair is one code point of four bytes, a surrogate alone is written as
\* U+FFFD (EF BF BD)
RECURSIVE Utf8Enc(_, _)
Utf8Enc(s, i) ==
  IF i > Len(s) THEN <<>>
  ELSE LET u == s[i]
       IN IF IsHigh(u) /\ i < Len(s) /\ IsLow(s[i + 1])
            THEN LET cp == 65536 + (u - 55296) * 1024 + (s[i + 1] - 56320)
                 IN <<240 + (cp \div 262144), 128 + ((cp \div 4096) % 64),
                      128 + ((cp \div 64) % 64), 128 + (cp % 64)>> \o Utf8Enc(s, i + 2)
          ELSE IF IsHigh(u) \/ IsLow(u) THEN <<239, 191, 189>> \o Utf8Enc(s, i + 1)
          ELSE IF u < 128 THEN <<u>> \o Utf8Enc(s, i + 1)
          ELSE IF u < 2048
            THEN <<192 + (u \div 64), 128 + (u % 64)>> \o Utf8Enc(s, i + 1)
          ELSE <<224 + (u \div 4096), 128 + ((u \div 64) % 64), 128 + (u % 64)>>
                 \o Utf8Enc(s, i + 1)

utf8_encode(s) == Utf8Enc(s, 1)

\* the string read with { encoding: "utf-8" }: every maximal ill-formed
\* run of bytes becomes one U+FFFD; no byte order mark is removed
RECURSIVE Utf8Dec(_, _)
Utf8Dec(b, i) ==
  IF i > Len(b) THEN <<>>
  ELSE LET x == b[i]
       IN IF x < 128 THEN <<x>> \o Utf8Dec(b, i + 1)
          ELSE IF x < 194 \/ x > 244 THEN <<65533>> \o Utf8Dec(b, i + 1)
          ELSE LET need == IF x < 224 THEN 1 ELSE IF x < 240 THEN 2 ELSE 3
                   lo == IF x = 224 THEN 160 ELSE IF x = 240 THEN 144 ELSE 128
                   hi == IF x = 237 THEN 159 ELSE IF x = 244 THEN 143 ELSE 191
                   ok1 == i + 1 <= Len(b) /\ b[i + 1] \in lo..hi
                   ok2 == ok1 /\ need >= 2 /\ i + 2 <= Len(b) /\ b[i + 2] \in 128..191
                   ok3 == ok2 /\ need >= 3 /\ i + 3 <= Len(b) /\ b[i + 3] \in 128..191
                   got == IF ok3 THEN 3 ELSE IF ok2 THEN 2 ELSE IF ok1 THEN 1 ELSE 0
                   cp == IF need = 1 THEN (x - 192) * 64 + (b[i + 1] - 128)
                         ELSE IF need = 2
                           THEN (x - 224) * 4096 + (b[i + 1] - 128) * 64 + (b[i + 2] - 128)
                         ELSE (x - 240) * 262144 + (b[i + 1] - 128) * 4096
                                + (b[i + 2] - 128) * 64 + (b[i + 3] - 128)
               IN IF got = need THEN UnitsOf(cp) \o Utf8Dec(b, i + 1 + need)
                  ELSE <<65533>> \o Utf8Dec(b, i + 1 + got)

utf8_decode(b) == Utf8Dec(b, 1)

Text(s) == [Void EXCEPT !.kind = "text", !.data = s]

\* File.write_text_sync / write_text
write_text(f, n, content) ==
  IF ~assert_mutable(n) THEN Out(ImmutableErr(n), f, n, Void, <<>>)
  ELSE LET r == sys_write(f, n.pointsTo, utf8_encode(content), FALSE)
       IN Out(IF r.err = "OK" THEN NoErr ELSE Errno(r.err), r.fs, n, Void,
              <<"writeFile">>)

\* File.read_text_sync / read_text
read_text(f, n) ==
  LET r == sys_read(f, n.pointsTo)
  IN Out(IF r.err = "OK" THEN NoErr ELSE Errno(r.err), f, n,
         Text(utf8_decode(r.data)), <<"readFile">>)

\* File.create_write_stream: the stream is opened later, on first use
create_write_stream(f, n) ==
  IF ~assert_mutable(n) THEN Out(ImmutableErr(n), f, n, Void, <<>>)
  ELSE Out(NoErr, f, n, Stream, <<>>)

\* File.delete_sync / delete
\* faulty variant: returns without unlinking
File_delete_skips(f, n) ==
  IF ~n.mutable THEN Out(ImmutableErr(n), f, n, Void, <<>>)
  ELSE Out(NoErr, f, n, Void, <<>>)

\* File.delete_sync / delete
File_delete(f, n) ==
  IF ~assert_mutable(n) THEN Out(ImmutableErr(n), f, n, Void, <<>>)
  ELSE LET r == sys_unlink(f, n.pointsTo)
       IN Out(IF r.err = "OK" THEN NoErr ELSE Errno(r.err), r.fs, n, Void,
              <<"unlink">>)

\* Folder.delete_sync / delete
Folder_delete(f, n) ==
  IF ~assert_mutable(n) THEN Out(ImmutableErr(n), f, n, Void, <<>>)
  ELSE LET r == sys_rmdir_recursive(f, n.pointsTo)
       IN Out(IF r.err = "OK" THEN NoErr ELSE Errno(r.err), r.fs, n, Void,
              <<"rmdir">>)

\* SymbolicLink.delete_sync / delete
SymbolicLink_delete(f, n) ==
  IF ~assert_mutable(n) THEN Out(ImmutableErr(n), f, n, Void, <<>>)
  ELSE LET r == sys_unlink(f, n.pointsTo)
       IN Out(IF r.err = "OK" THEN NoErr ELSE Errno(r.err), r.fs, n, Void,
              <<"unlink">>)

\* UnusuableRoad.delete_sync / move_sync / copy_sync / rename_sync and the
\* async forms: each only throws
\* faulty variant: the entry is unlinked before the error is thrown
Unusuable_op_unlinks(f, n, what) ==
  Out(Err("Cannot " \o what \o " type", n.cls, n.pointsTo),
      sys_unlink(f, n.pointsTo).fs, n, Void, <<"unlink">>)

Unusuable_op(f, n, what) ==
  Out(Err("Cannot " \o what \o " type", n.cls, n.pointsTo), f, n, Void, <<>>)

\* faulty variant: pointsTo is assigned before the entry is renamed
Road_move_eager(f, n, into) ==
  IF ~n.mutable THEN Out(ImmutableErr(n), f, n, Void, <<>>)
  ELSE LET newPath == join(into.pointsTo, <<basename(n.pointsTo)>>)
           r == sys_rename(f, n.pointsTo, newPath)
       IN Out(IF r.err = "OK" THEN NoErr ELSE Errno(r.err), r.fs,
              [n EXCEPT !.pointsTo = newPath], Void, <<"rename">>)

\* File.move_sync / move (Folder and SymbolicLink have the same body)
Road_move(f, n, into) ==
  IF ~assert_mutable(n) THEN Out(ImmutableErr(n), f, n, Void, <<>>)
  ELSE LET newPath == join(into.pointsTo, <<name(n)>>)
           r == sys_rename(f, n.pointsTo, newPath)
       IN IF r.err # "OK" THEN Out(Errno(r.err), f, n, Void, <<"rename">>)
          ELSE Out(NoErr, r.fs, [n EXCEPT !.pointsTo = newPath], Void,
                   <<"rename">>)

\* faulty variant: the entry is renamed but pointsTo is not updated
Road_rename_stale(f, n, to) ==
  IF ~n.mutable THEN Out(ImmutableErr(n), f, n, Void, <<>>)
  ELSE LET newPath == join(dirname(n.pointsTo), to)
           r == sys_rename(f, n.pointsTo, newPath)
       IN IF r.err # "OK" THEN Out(Errno(r.err), f, n, Void, <<"rename">>)
          ELSE Out(NoErr, r.fs, n, Void, <<"rename">>)

\* File.rename_sync / rename (Folder and SymbolicLink have the same body)
Road_rename(f, n, to) ==
  IF ~assert_mutable(n) THEN Out(ImmutableErr(n), f, n, Void, <<>>)
  ELSE LET p == parent(f, n)
       IN IF p.err # NoErr THEN Out(p.err, f, n, Void, <<"access", "lstat">>)
          ELSE LET newPath == join(p.node.pointsTo, to)
                   r == sys_rename(f, n.pointsTo, newPath)
               IN IF r.err # "OK"
                    THEN Out(Errno(r.err), f, n, Void, <<"access", "lstat", "rename">>)
                  ELSE Out(NoErr, r.fs, [n EXCEPT !.pointsTo = newPath], Void,
                           <<"access", "lstat", "rename">>)

\* File.copy_sync / copy
File_copy(f, n, into) ==
  LET newPath == join(into.pointsTo, <<name(n)>>)
      r == sys_copyFile(f, n.pointsTo, newPath)
      c == Construct(r.fs, "File", Abs(newPath))
  IN IF r.err # "OK" THEN Out(Errno(r.err), r.fs, n, Made(NoNode), <<"copyFile">>)
     ELSE Out(c.err, r.fs, n, Made(c.node), <<"copyFile", "access", "lstat">>)

\* faulty variant: only the folder itself is created, not what it holds
Folder_copy_shallow(f, n, into) ==
  LET newPath == join(into.pointsTo, <<name(n)>>)
      r == sys_mkdir_recursive(f, newPath)
      c == Construct(r.fs, "Folder", Abs(newPath))
  IN IF r.err # "OK" THEN Out(Errno(r.err), r.fs, n, Made(NoNode), <<"mkdir">>)
     ELSE Out(c.err, r.fs, n, Made(c.node), <<"mkdir", "access", "lstat">>)

\* Folder.copy_sync / copy
Folder_copy(f, n, into) ==
  LET newPath == join(into.pointsTo, <<name(n)>>)
      r == sys_cp_recursive(f, n.pointsTo, newPath)
      c == Construct(r.fs, "Folder", Abs(newPath))
  IN IF r.err # "OK" THEN Out(Errno(r.err), r.fs, n, Made(NoNode), <<"cp">>)
     ELSE Out(c.err, r.fs, n, Made(c.node), <<"cp", "access", "lstat">>)

\* SymbolicLink.target_sync / target
target(f, n) ==
  LET l == sys_readlink(f, n.pointsTo)
  IN IF l.err # "OK" THEN [err |-> Errno(l.err), node |-> NoNode]
     ELSE factory(f, Abs(resolve2(dirname(n.pointsTo), l.target)))

\* SymbolicLink.copy_sync / copy
SymbolicLink_copy(f, n, into) ==
  LET newPath == join(into.pointsTo, <<name(n)>>)
      t == target(f, n)
      r == sys_symlink(f, Abs(t.node.pointsTo), newPath)
      c == Construct(r.fs, "SymbolicLink", Abs(newPath))
  IN IF t.err # NoErr THEN Out(t.err, f, n, Made(NoNode), <<"readlink", "access", "lstat">>)
     ELSE IF r.err # "OK" THEN Out(Errno(r.err), f, n, Made(NoNode), <<"readlink", "symlink">>)
     ELSE Out(c.err, r.fs, n, Made(c.node), <<"readlink", "symlink", "access", "lstat">>)

\* File.create_sync(_at) / File.create: writeFile when access fails, then new File
File_create(f, raw) ==
  LET a == sys_access(f, raw)
      w == IF a = "OK" THEN Res("OK", f) ELSE sys_write(f, resolve(raw), <<>>, FALSE)
      c == Construct(w.fs, "File", raw)
      calls == IF a = "OK" THEN <<"access">> ELSE <<"access", "writeFile">>
  IN IF w.err # "OK" THEN Out(Errno(w.err), w.fs, NoNode, Made(NoNode), calls)
     ELSE Out(c.err, w.fs, NoNode, Made(c.node), calls \o <<"access", "lstat">>)

\* Folder.create_sync(_at) / Folder.create: mkdir -p when access fails
Folder_create(f, raw) ==
  LET a == sys_access(f, raw)
      w == IF a = "OK" THEN Res("OK", f) ELSE sys_mkdir_recursive(f, resolve(raw))
      c == Construct(w.fs, "Folder", raw)
      calls == IF a = "OK" THEN <<"access">> ELSE <<"access", "mkdir">>
  IN IF w.err # "OK" THEN Out(Errno(w.err), w.fs, NoNode, Made(NoNode), calls)
     ELSE Out(c.err, w.fs, NoNode, Made(c.node), calls \o <<"access", "lstat">>)

\* SymbolicLink.create_sync(_at, _target?) / create: symlink(_target?.isAt ?? "")
\* when access fails; tgt = NoNode stands for no _target
SymbolicLink_create(f, raw, tgt) ==
  LET a == sys_access(f, raw)
      t == IF tgt = NoNode THEN Raw(FALSE, <<>>) ELSE Abs(tgt.pointsTo)
      w == IF a = "OK" THEN Res("OK", f) ELSE sys_symlink(f, t, resolve(raw))
      c == Construct(w.fs, "SymbolicLink", raw)
      calls == IF a = "OK" THEN <<"access">> ELSE <<"access", "symlink">>
  IN IF w.err # "OK" THEN Out(Errno(w.err), w.fs, NoNode, Made(NoNode), calls)
     ELSE Out(c.err, w.fs, NoNode, Made(c.node), calls \o <<"access", "lstat">>)

\* SymbolicLink.retarget_sync / retarget: delete, then symlink
retarget(f, n, newTarget) ==
  IF ~assert_mutable(n) THEN Out(ImmutableErr(n), f, n, Void, <<>>)
  ELSE LET d == SymbolicLink_delete(f, n)
           r == sys_symlink(d.fs, Abs(newTarget.pointsTo), n.pointsTo)
       IN IF d.err # NoErr THEN d
          ELSE Out(IF r.err = "OK" THEN NoErr ELSE Errno(r.err), r.fs, n, Void,
                   <<"unlink", "symlink">>)

\* the class's own delete / copy
delete(f, n) ==
  IF n.cls \in Unusuable THEN Unusuable_op(f, n, "delete")
  ELSE IF InstanceOf(n.cls, "Folder") THEN Folder_delete(f, n)
  ELSE IF InstanceOf(n.cls, "File") THEN File_delete(f, n)
  ELSE SymbolicLink_delete(f, n)

move(f, n, into) ==
  IF n.cls \in Unusuable THEN Unusuable_op(f, n, "move") ELSE Road_move(f, n, into)

rename(f, n, to) ==
  IF n.cls \in Unusuable THEN Unusuable_op(f, n, "rename") ELSE Road_rename(f, n, to)

copy(f, n, into) ==
  IF n.cls \in Unusuable THEN Unusuable_op(f, n, "copy")
  ELSE IF InstanceOf(n.cls, "Folder") THEN Folder_copy(f, n, into)
  ELSE IF InstanceOf(n.cls, "File") THEN File_copy(f, n, into)
  ELSE SymbolicLink_copy(f, n, into)

\* os.tmpdir()
tmpdir == <<"tmp">>

\* new TempFile(): File.create_sync of a name made of Date.now() and
\* crypto.randomUUID() in tmpdir, then File's constructor at its path; nm
\* stands for the name drawn
\* (the singleton sets bind each call's outcome as a value)
TempFile_new(f, nm) ==
  CHOOSE r \in
    {IF c.err # NoErr THEN [err |-> c.err, fs |-> c.fs, node |-> NoNode]
     ELSE CHOOSE q \in {[err |-> n.err, fs |-> c.fs, node |-> n.node] :
            n \in {Construct(c.fs, "TempFile", Abs(c.ret.node.pointsTo))}} : TRUE
       : c \in {File_create(f, Abs(join(tmpdir, <<nm>>)))}} : TRUE

\* new TempFolder()
TempFolder_new(f, nm) ==
  CHOOSE r \in
    {IF c.err # NoErr THEN [err |-> c.err, fs |-> c.fs, node |-> NoNode]
     ELSE CHOOSE q \in {[err |-> n.err, fs |-> c.fs, node |-> n.node] :
            n \in {Construct(c.fs, "TempFolder", Abs(c.ret.node.pointsTo))}} : TRUE
       : c \in {Folder_create(f, Abs(join(tmpdir, <<nm>>)))}} : TRUE

\* road.ts TempFile / TempFolder [Symbol.dispose] and [Symbol.asyncDispose]:
\* delete_sync() / await delete(), whatever it throws goes to the caller
dispose(f, n) == delete(f, n)

\* node.ts TempFile / TempFolder [Symbol.dispose] and [Symbol.asyncDispose]:
\* the delete is wrapped in try / catch, a failure is written to console.error
dispose_node(f, n) ==
  LET o == delete(f, n)
  IN IF o.err = NoErr THEN o
     ELSE Out(NoErr, o.fs, o.node, Void, o.sys \o <<"console.error">>)


(***************************************************************************)
(* State machine.  fs: the tree; nodes: the Road instances the program     *)
(* holds; last: the call that made the last step, with what it threw or    *)
(* returned; budget: calls left in the run.                                *)
(***************************************************************************)
Last(op, id, into, to, data, o) ==
  [op |-> op, id |-> id, into |-> into, to |-> to, data |-> data, cls |-> "",
   path |-> NoTarget, err |-> o.err, ret |-> o.ret, sys |-> o.sys]

NoCall ==
  [op |-> "init", id |-> 0, into |-> 0, to |-> <<>>, data |-> <<>>, cls |-> "",
   path |-> NoTarget, err |-> NoErr, ret |-> Void, sys |-> <<>>]

\* nothing is running beside the calls themselves
NoRt == [kind |-> "none"]

\* a call on nodes[i] ends with outcome o
Apply(i, op, into, to, data, o) ==
  /\ budget > 0
  /\ budget' = budget - 1
  /\ fs' = o.fs
  /\ nodes' = [nodes EXCEPT ![i] = o.node]
  /\ last' = Last(op, i, into, to, data, o)
  /\ rt' = rt

Usable == {"File", "Folder", "SymbolicLink"}

IsUsable(n) == \E c \in Usable : InstanceOf(n.cls, c)

(***************************************************************************)
(* SpecFs: write, delete, move, copy, rename and retarget on a small tree. *)
(***************************************************************************)
FsTree ==
  (<<>> :> DirE)
  @@ (<<"a">> :> DirE)
  @@ (<<"a", "f">> :> FileE(<<1>>))
  @@ (<<"a", "l">> :> LinkE(Raw(FALSE, <<"f">>)))
  @@ (<<"a", "s">> :> DirE)
  @@ (<<"a", "s", "g">> :> FileE(<<2>>))
  @@ (<<"a", "s", "k">> :> LinkE(Raw(FALSE, <<"g">>)))
  @@ (<<"b">> :> DirE)
  @@ (<<"b", "s">> :> DirE)
  @@ (<<"b", "s", "h">> :> FileE(<<3>>))
  @@ (<<"b", "p">> :> SpecialE("fifo"))
  @@ (<<"c">> :> DirE)

\* the instances the program holds: 1..4 are acted on, 5..7 are the folders
\* passed as _into
FsNodes ==
  (1 :> Construct(FsTree, "File", Abs(<<"a", "f">>)).node)
  @@ (2 :> Construct(FsTree, "Folder", Abs(<<"a", "s">>)).node)
  @@ (3 :> Construct(FsTree, "SymbolicLink", Abs(<<"a", "l">>)).node)
  @@ (4 :> Construct(FsTree, "Fifo", Abs(<<"b", "p">>)).node)
  @@ (5 :> Construct(FsTree, "Folder", Abs(<<"a">>)).node)
  @@ (6 :> Construct(FsTree, "Folder", Abs(<<"b">>)).node)
  @@ (7 :> Construct(FsTree, "Folder", Abs(<<"c">>)).node)

FsSubjects == {1, 2, 3, 4}
FsInto == {5, 6, 7}

\* the _to strings passed to rename: a new name, the names in use, a
\* relative path into a subfolder, the parent, the empty string
RenameArgs == {<<"n">>, <<"f">>, <<"s">>, <<"s", "n">>, <<"..", "n">>, <<>>}

WriteArgs == {<<>>, <<7, 0>>}

\* the program may have set mutable = false on one of its instances
FsInit ==
  /\ fs = FsTree
  /\ \E frozen \in {0, 1, 2, 3} :
       nodes = [i \in DOMAIN FsNodes |->
                  IF i = frozen THEN [FsNodes[i] EXCEPT !.mutable = FALSE]
                  ELSE FsNodes[i]]
  /\ last = NoCall
  /\ budget = MaxSteps
  /\ rt = NoRt

FsWrite ==
  \E i \in FsSubjects, d \in WriteArgs :
    /\ InstanceOf(nodes[i].cls, "File")
    /\ Apply(i, "write_bytes", 0, <<>>, d, write_bytes(fs, nodes[i], d))

FsAppend ==
  \E i \in FsSubjects, d \in WriteArgs :
    /\ InstanceOf(nodes[i].cls, "File")
    /\ Apply(i, "append_bytes", 0, <<>>, d, append_bytes(fs, nodes[i], d))

FsStream ==
  \E i \in FsSubjects :
    /\ InstanceOf(nodes[i].cls, "File")
    /\ Apply(i, "create_write_stream", 0, <<>>, <<>>, create_write_stream(fs, nodes[i]))

FsDelete ==
  \E i \in FsSubjects :
    Apply(i, "delete", 0, <<>>, <<>>, delete(fs, nodes[i]))

FsMove ==
  \E i \in FsSubjects, j \in FsInto :
    Apply(i, "move", j, <<>>, <<>>, move(fs, nodes[i], nodes[j]))

FsCopy ==
  \E i \in FsSubjects, j \in FsInto :
    Apply(i, "copy", j, <<>>, <<>>, copy(fs, nodes[i], nodes[j]))

FsRename ==
  \E i \in FsSubjects, to \in RenameArgs :
    Apply(i, "rename", 0, to, <<>>, rename(fs, nodes[i], to))

FsRetarget ==
  \E i \in FsSubjects, j \in FsSubjects :
    /\ nodes[i].cls = "SymbolicLink"
    /\ Apply(i, "retarget", j, <<>>, <<>>, retarget(fs, nodes[i], nodes[j]))

FsNext ==
  \/ FsWrite \/ FsAppend \/ FsStream \/ FsDelete
  \/ FsMove \/ FsCopy \/ FsRename \/ FsRetarget

SpecFs == FsInit /\ [][FsNext]_vars


(***************************************************************************)
(* Claims checked under SpecFs.                                            *)
(***************************************************************************)
MutatingOps ==
  {"write_bytes", "append_bytes", "create_write_stream", "delete", "move",
   "rename", "retarget"}

\* C2: a mutating call on a File, Folder or SymbolicLink whose mutable flag
\* is false throws the immutability error before any node:fs call is made,
\* and leaves the tree and every node (its location included) as they were.
C2_ImmutableGuard ==
  [][(/\ last'.op \in MutatingOps
      /\ IsUsable(nodes[last'.id])
      /\ ~nodes[last'.id].mutable)
     => (/\ last'.err = ImmutableErr(nodes[last'.id])
         /\ last'.sys = <<>>
         /\ fs' = fs
         /\ nodes' = nodes)]_vars

\* C2 witness: each kind of mutating call has been refused on a frozen node.
C2_Witness ==
  /\ last.op = "retarget"
  /\ ~nodes[last.id].mutable
  /\ last.err.code = "Immutable"

PositionalOps == {"delete", "move", "copy", "rename"}

\* C3: delete, move, copy and rename on a BlockDevice, CharacterDevice, Fifo
\* or Socket instance always throw an error naming the class and the path,
\* and the tree is untouched.
C3_UnusuableRejects ==
  [][(last'.op \in PositionalOps /\ nodes[last'.id].cls \in Unusuable)
     => (/\ last'.err = Err("Cannot " \o last'.op \o " type",
                            nodes[last'.id].cls, nodes[last'.id].pointsTo)
         /\ fs' = fs
         /\ nodes' = nodes)]_vars

\* C3 witness: a delete on the fifo instance was refused, the fifo still there.
C3_Witness ==
  /\ last.op = "delete"
  /\ nodes[last.id].cls = "Fifo"
  /\ last.err.code = "Cannot delete type"
  /\ sys_lstat(fs, nodes[last.id].pointsTo).kind = "fifo"

\* C7 as claimed: after a successful move(F) the node is at F.join(old name),
\* name() is unchanged, parent() is at F, no entry remains at the old path,
\* the entry is the same as before, and exists() is true.
C7_MoveAsClaimed ==
  [][(last'.op = "move" /\ last'.err = NoErr /\ IsUsable(nodes[last'.id]))
     => LET old == nodes[last'.id]
            new == nodes'[last'.id]
            F == nodes[last'.into].pointsTo
        IN /\ new.pointsTo = join(F, <<name(old)>>)
           /\ name(new) = name(old)
           /\ parent(fs', new).err = NoErr
           /\ parent(fs', new).node.pointsTo = F
           /\ Lookup(fs', old.pointsTo, FALSE).err = "ENOENT"
           /\ TreeAt(fs', new.pointsTo) = TreeAt(fs, old.pointsTo)
           /\ exists_sync(fs', new).ret.bool
           /\ exists(fs', new).ret.bool]_vars

\* C7 failing case: a symbolic link with a relative target was moved into
\* another folder; the entry is there, a link as before, and exists() is false.
C7_Witness ==
  /\ last.op = "move"
  /\ last.err = NoErr
  /\ nodes[last.id].cls = "SymbolicLink"
  /\ sys_lstat(fs, nodes[last.id].pointsTo).kind = "link"
  /\ ~exists(fs, nodes[last.id]).ret.bool

\* a _to string that is one path component
SimpleName(to) == Len(to) = 1 /\ to[1] \notin {".", "..", ""}

\* C8 as claimed: after a successful rename(n), for every accepted string n,
\* name() is n, the parent folder is the same, no entry remains at the old
\* path and the content is unchanged.
C8_RenameAsClaimed ==
  [][(last'.op = "rename" /\ last'.err = NoErr /\ IsUsable(nodes[last'.id]))
     => LET old == nodes[last'.id]
            new == nodes'[last'.id]
        IN /\ <<name(new)>> = last'.to
           /\ dirname(new.pointsTo) = dirname(old.pointsTo)
           /\ Lookup(fs', old.pointsTo, FALSE).err = "ENOENT"
           /\ TreeAt(fs', new.pointsTo) = TreeAt(fs, old.pointsTo)]_vars

\* C8 amended: after a successful rename(n) the node is at parent.join(n)
\* with its content unchanged; when n is a single path component, name() is
\* n and the parent folder is the same; when n is moreover not the current
\* name, no entry remains at the old path.
C8_Rename ==
  [][(last'.op = "rename" /\ last'.err = NoErr /\ IsUsable(nodes[last'.id]))
     => LET old == nodes[last'.id]
            new == nodes'[last'.id]
        IN /\ new.pointsTo = join(dirname(old.pointsTo), last'.to)
           /\ TreeAt(fs', new.pointsTo) = TreeAt(fs, old.pointsTo)
           /\ SimpleName(last'.to) =>
                /\ name(new) = last'.to[1]
                /\ parent(fs', new) = parent(fs, old)
                /\ parent(fs', new).err = NoErr
                /\ (last'.to[1] # name(old)
                      => Lookup(fs', old.pointsTo, FALSE).err = "ENOENT")]_vars

\* C8 witness: a rename to a new single-component name succeeded.
C8_Witness ==
  /\ last.op = "rename"
  /\ last.err = NoErr
  /\ last.to = <<"n">>
  /\ nodes[last.id].cls = "Folder"
  /\ name(nodes[last.id]) = "n"

\* what cp makes of an entry: a link is copied with its target made absolute
CopiedEntry(f, p) ==
  IF f[p].kind = "link"
    THEN LinkE(Raw(TRUE, resolve2(dirname(p), f[p].target)))
    ELSE f[p]

\* the subtree at src as a copy of it would be, paths relative to src
CopyOf(f, src) ==
  [q \in DOMAIN TreeAt(f, src) |-> CopiedEntry(f, src \o q)]

IsFileOrFolder(n) == InstanceOf(n.cls, "File") \/ InstanceOf(n.cls, "Folder")

KindSteps == 2

KindTree ==
  (<<>> :> DirE)
  @@ (<<"a">> :> DirE)
  @@ (<<"a", "f">> :> FileE(<<1>>))
  @@ (<<"a", "d">> :> DirE)
  @@ (<<"a", "d", "e">> :> FileE(<<>>))
  @@ (<<"a", "l">> :> LinkE(Raw(FALSE, <<"f">>)))
  @@ (<<"a", "x">> :> LinkE(Raw(FALSE, <<"gone">>)))
  @@ (<<"a", "b">> :> SpecialE("blk"))
  @@ (<<"a", "c">> :> SpecialE("chr"))
  @@ (<<"a", "p">> :> SpecialE("fifo"))
  @@ (<<"a", "k">> :> SpecialE("sock"))

KindNodes ==
  (1 :> Construct(KindTree, "File", Abs(<<"a", "f">>)).node)
  @@ (2 :> Construct(KindTree, "Folder", Abs(<<"a", "d">>)).node)
  @@ (3 :> Construct(KindTree, "SymbolicLink", Abs(<<"a", "l">>)).node)
  @@ (4 :> Construct(KindTree, "BlockDevice", Abs(<<"a", "b">>)).node)
  @@ (5 :> Construct(KindTree, "CharacterDevice", Abs(<<"a", "c">>)).node)
  @@ (6 :> Construct(KindTree, "Fifo", Abs(<<"a", "p">>)).node)
  @@ (7 :> Construct(KindTree, "Socket", Abs(<<"a", "k">>)).node)

\* the _lookFor strings: every entry, a missing path, a relative path
KindPaths ==
  {Abs(<<"a", n>>) : n \in {"f", "d", "l", "x", "b", "c", "p", "k", "gone"}}
    \cup {Raw(FALSE, <<"f">>), Raw(FALSE, <<"..", "a", "d">>)}

\* the _at strings passed to the create methods
CreatePaths == {Abs(<<"a", n>>) : n \in {"f", "d", "l", "gone"}}

\* a static call (or a constructor call) ends with outcome o
Static(op, cls, raw, o) ==
  /\ budget > 0
  /\ budget' = budget - 1
  /\ fs' = o.fs
  /\ nodes' = nodes
  /\ last' = [Last(op, 0, 0, <<>>, <<>>, o) EXCEPT !.cls = cls, !.path = raw]
  /\ rt' = rt

KindInit ==
  /\ fs = KindTree
  /\ nodes = KindNodes
  /\ last = NoCall
  /\ budget = KindSteps
  /\ rt = NoRt

KindFactory ==
  \E raw \in KindPaths :
    LET c == factory(fs, raw)
    IN Static("factory", "", raw, Out(c.err, fs, NoNode, Made(c.node), <<>>))

KindNew ==
  \E cls \in Concrete, raw \in KindPaths :
    LET c == Construct(fs, cls, raw)
    IN Static("new", cls, raw, Out(c.err, fs, NoNode, Made(c.node), <<>>))

KindExists ==
  \E i \in DOMAIN nodes :
    Apply(i, "exists", 0, <<>>, <<>>, exists(fs, nodes[i]))

KindExistsSync ==
  \E i \in DOMAIN nodes :
    Apply(i, "exists_sync", 0, <<>>, <<>>, exists_sync(fs, nodes[i]))

KindDelete ==
  \E i \in {1, 2, 3} :
    Apply(i, "delete", 0, <<>>, <<>>, delete(fs, nodes[i]))

KindCreateFile ==
  \E raw \in CreatePaths : Static("File.create", "File", raw, File_create(fs, raw))

KindCreateFolder ==
  \E raw \in CreatePaths : Static("Folder.create", "Folder", raw, Folder_create(fs, raw))

KindCreateLink ==
  \E raw \in CreatePaths, tgt \in {NoNode, nodes[1]} :
    Static("SymbolicLink.create", "SymbolicLink", raw,
           SymbolicLink_create(fs, raw, tgt))

KindNext ==
  \/ KindFactory
  \/ KindNew
  \/ KindExists
  \/ KindExistsSync
  \/ KindDelete
  \/ KindCreateFile
  \/ KindCreateFolder
  \/ KindCreateLink

SpecKind == KindInit /\ [][KindNext]_vars

\* the concrete class that represents an on-disk kind
ClassOfKind(k) ==
  CASE k = "file" -> "File" [] k = "dir" -> "Folder" [] k = "link" -> "SymbolicLink"
    [] k = "blk" -> "BlockDevice" [] k = "chr" -> "CharacterDevice"
    [] k = "fifo" -> "Fifo" [] k = "sock" -> "Socket"

\* the entry a path names, symbolic links not followed at the last component
OnDisk(f, raw) ==
  LET r == LookupRaw(f, raw, FALSE)
  IN [present |-> r.err = "OK",
      cls |-> IF r.err = "OK" THEN ClassOfKind(f[r.at].kind) ELSE "none"]

\* C1 as claimed: for every path that names an entry, of kind K when links
\* are not followed, factory returns an instance of the class representing
\* K, and constructing any other concrete class there fails with the
\* type-mismatch error.
C1_FactoryAsClaimed ==
  LET d == OnDisk(fs, last.path)
  IN /\ (last.op = "factory" /\ d.present)
          => (last.err = NoErr /\ last.ret.node.cls = d.cls)
     /\ (last.op = "new" /\ d.present /\ last.cls # d.cls)
          => last.err.code = "TypeMismatch"

\* C1 failing case: factory was called on a symbolic link whose target is
\* missing; the link is on disk and factory threw ENOENT.
C1_Witness ==
  /\ last.op = "factory"
  /\ OnDisk(fs, last.path) = [present |-> TRUE, cls |-> "SymbolicLink"]
  /\ last.err = Errno("ENOENT")

\* C4 as claimed: exists() and exists_sync() never raise, and return true
\* exactly when an entry is at the node's location whose kind, links not
\* followed, is the instance's own kind.
C4_ExistsAsClaimed ==
  last.op \in {"exists", "exists_sync"}
    => LET n == nodes[last.id]
           d == OnDisk(fs, Abs(n.pointsTo))
       IN /\ last.err = NoErr
          /\ last.ret.bool = (d.present /\ InstanceOf(n.cls, d.cls))

\* C4 failing case: the SymbolicLink instance's link is on disk, still a
\* symbolic link, and exists() returned false.
C4_Witness ==
  /\ last.op = "exists"
  /\ nodes[last.id].cls = "SymbolicLink"
  /\ OnDisk(fs, Abs(nodes[last.id].pointsTo)) = [present |-> TRUE, cls |-> "SymbolicLink"]
  /\ last.err = NoErr
  /\ ~last.ret.bool


(***************************************************************************)
(* SpecTemp: a TempFile, a TempFolder and a SymbolicLink in the temporary  *)
(* folder: written, filled, deleted, disposed (road.ts and node.ts forms), *)
(* re-created, and asked whether they exist.                               *)
(***************************************************************************)
TempSteps == 3

\* the tree once new TempFile(), new TempFolder() and
\* SymbolicLink.create_sync(tmp/l, the temp file) have run
TempTree ==
  (<<>> :> DirE)
  @@ (tmpdir :> DirE)
  @@ (<<"tmp", "t1">> :> FileE(<<>>))
  @@ (<<"tmp", "t2">> :> DirE)
  @@ (<<"tmp", "l">> :> LinkE(Abs(<<"tmp", "t1">>)))

TempNodes ==
  (1 :> Construct(TempTree, "TempFile", Abs(<<"tmp", "t1">>)).node)
  @@ (2 :> Construct(TempTree, "TempFolder", Abs(<<"tmp", "t2">>)).node)
  @@ (3 :> Construct(TempTree, "SymbolicLink", Abs(<<"tmp", "l">>)).node)

TempInit ==
  /\ fs = TempTree
  /\ nodes = TempNodes
  /\ last = NoCall
  /\ budget = TempSteps
  /\ rt = NoRt

Temps == {1, 2}

\* the name the next constructor call draws
TempNames == {"t3"}

\* the program's variable i is given a new TempFile / TempFolder
TempNew ==
  \E i \in Temps, nm \in TempNames :
    \E c \in {IF i = 1 THEN TempFile_new(fs, nm) ELSE TempFolder_new(fs, nm)} :
      /\ join(tmpdir, <<nm>>) \notin DOMAIN fs
      /\ Apply(i, "new", 0, <<>>, <<>>,
               Out(c.err, c.fs, IF c.err = NoErr THEN c.node ELSE nodes[i],
                   Made(c.node), <<>>))

TempDispose ==
  \E i \in Temps : Apply(i, "dispose", 0, <<>>, <<>>, dispose(fs, nodes[i]))

TempAsyncDispose ==
  \E i \in Temps : Apply(i, "asyncDispose", 0, <<>>, <<>>, dispose(fs, nodes[i]))

TempDisposeNode ==
  \E i \in Temps : Apply(i, "node.dispose", 0, <<>>, <<>>, dispose_node(fs, nodes[i]))

TempAsyncDisposeNode ==
  \E i \in Temps :
    Apply(i, "node.asyncDispose", 0, <<>>, <<>>, dispose_node(fs, nodes[i]))

TempDelete ==
  \E i \in DOMAIN nodes : Apply(i, "delete", 0, <<>>, <<>>, delete(fs, nodes[i]))

TempExists ==
  \E i \in DOMAIN nodes : Apply(i, "exists", 0, <<>>, <<>>, exists(fs, nodes[i]))

TempExistsSync ==
  \E i \in DOMAIN nodes :
    Apply(i, "exists_sync", 0, <<>>, <<>>, exists_sync(fs, nodes[i]))

TempWrite ==
  Apply(1, "write_bytes", 0, <<>>, <<7>>, write_bytes(fs, nodes[1], <<7>>))

\* File.create_sync(temp.join('data.txt')), as in TempFolder's example
TempFill ==
  LET raw == Abs(join(nodes[2].pointsTo, <<"data.txt">>))
  IN Static("File.create", "File", raw, File_create(fs, raw))

\* an entry is created again where an instance points
TempRecreate ==
  \E i \in DOMAIN nodes :
    \/ Static("File.create", "File", Abs(nodes[i].pointsTo),
              File_create(fs, Abs(nodes[i].pointsTo)))
    \/ Static("Folder.create", "Folder", Abs(nodes[i].pointsTo),
              Folder_create(fs, Abs(nodes[i].pointsTo)))

TempNext ==
  \/ TempNew
  \/ TempDispose
  \/ TempAsyncDispose
  \/ TempDisposeNode
  \/ TempAsyncDisposeNode
  \/ TempDelete
  \/ TempExists
  \/ TempExistsSync
  \/ TempWrite
  \/ TempFill
  \/ TempRecreate

SpecTemp == TempInit /\ [][TempNext]_vars

DeleteOps == {"delete", "dispose", "asyncDispose", "node.dispose", "node.asyncDispose"}

DisposeOps == DeleteOps \ {"delete"}

Calls(q) == {q[k] : k \in DOMAIN q}

\* nothing is at p, nor below it
Gone(f, p) == \A q \in DOMAIN f : ~IsPrefix(p, q)

\* an entry of the instance's own kind is at the instance's location
SameKindThere(f, n) ==
  LET d == OnDisk(f, Abs(n.pointsTo)) IN d.present /\ InstanceOf(n.cls, d.cls)

\* C5: after a delete (a disposal that deleted included) succeeds on a File,
\* Folder or SymbolicLink, no entry is at the node's location nor below it;
\* and in every state exists() and exists_sync() on an instance return
\* false, without raising, unless an entry of its kind is at its location.
C5_DeleteThenStale ==
  /\ [][(/\ last'.op \in DeleteOps
         /\ last'.err = NoErr
         /\ "console.error" \notin Calls(last'.sys))
        => Gone(fs', nodes[last'.id].pointsTo)]_vars
  /\ [](\A i \in DOMAIN nodes :
          ~SameKindThere(fs, nodes[i])
            => /\ exists(fs, nodes[i]).err = NoErr
               /\ ~exists(fs, nodes[i]).ret.bool
               /\ exists_sync(fs, nodes[i]).err = NoErr
               /\ ~exists_sync(fs, nodes[i]).ret.bool)

\* C5 witness: the temporary folder was filled and disposed of, a file was
\* then created at its path, and exists() on the stale instance says false.
C5_Witness ==
  /\ last.op = "exists"
  /\ nodes[last.id].cls = "TempFolder"
  /\ OnDisk(fs, Abs(nodes[last.id].pointsTo)) = [present |-> TRUE, cls |-> "File"]
  /\ ~last.ret.bool

\* C6 as claimed: a dispose call (sync or async) that follows a dispose of
\* the same instance, the entry being gone, does not raise and changes
\* nothing on disk.
C6_DisposeTwiceAsClaimed ==
  [][(/\ last.op \in DisposeOps
      /\ last'.op \in DisposeOps
      /\ last'.id = last.id
      /\ Gone(fs, nodes[last.id].pointsTo))
     => (last'.err = NoErr /\ fs' = fs)]_vars

\* C6 failing case: the second [Symbol.dispose]() of road.ts threw ENOENT.
C6_Witness ==
  /\ last.op = "dispose"
  /\ nodes[last.id].cls = "TempFile"
  /\ last.err = Errno("ENOENT")


(***************************************************************************)
(* SpecRoundTrip: a file is written and read, as bytes and as text.        *)
(***************************************************************************)
RtSteps == 2
MaxBytes == 2
MaxText == 2

\* byte values: NUL, an ASCII letter, a continuation byte, a two-byte lead,
\* a byte no UTF-8 sequence holds
ByteVals == {0, 65, 169, 195, 255}

\* code units: 'A', U+00E9, U+20AC, a high and a low surrogate, U+FFFD
UnitVals == {65, 233, 8364, 55357, 56832, 65533}

SeqsUpTo(S, n) == UNION {[1..k -> S] : k \in 0..n}

PriorContents == {<<>>, <<255, 65, 66>>}

RtInit ==
  /\ \E prior \in PriorContents :
       fs = (<<>> :> DirE) @@ (<<"a">> :> DirE) @@ (<<"a", "f">> :> FileE(prior))
  /\ nodes = (1 :> Node("File", <<"a", "f">>, TRUE))
  /\ last = NoCall
  /\ budget = RtSteps
  /\ rt = NoRt

RtWriteBytes ==
  \E b \in SeqsUpTo(ByteVals, MaxBytes) :
    Apply(1, "write_bytes", 0, <<>>, b, write_bytes(fs, nodes[1], b))

RtReadBytes == Apply(1, "read_bytes", 0, <<>>, <<>>, read_bytes(fs, nodes[1]))

RtWriteText ==
  \E s \in SeqsUpTo(UnitVals, MaxText) :
    Apply(1, "write_text", 0, <<>>, s, write_text(fs, nodes[1], s))

RtReadText == Apply(1, "read_text", 0, <<>>, <<>>, read_text(fs, nodes[1]))

RtNext ==
  \/ RtWriteBytes
  \/ RtReadBytes
  \/ RtWriteText
  \/ RtReadText

SpecRoundTrip == RtInit /\ [][RtNext]_vars

\* C10 as claimed: a read_bytes() that follows a write_bytes(b) returns
\* exactly b, whatever the file held before, and a read_text() that follows
\* a write_text(s) returns exactly s, for every string s.
C10_RoundTripAsClaimed ==
  [][/\ (last.op = "write_bytes" /\ last.err = NoErr /\ last'.op = "read_bytes")
          => (last'.err = NoErr /\ last'.ret.data = last.data)
     /\ (last.op = "write_text" /\ last.err = NoErr /\ last'.op = "read_text")
          => (last'.err = NoErr /\ last'.ret.data = last.data)]_vars

\* no surrogate without its partner
WellFormed(s) ==
  \A i \in DOMAIN s :
    /\ IsHigh(s[i]) => (i < Len(s) /\ IsLow(s[i + 1]))
    /\ IsLow(s[i]) => (i > 1 /\ IsHigh(s[i - 1]))

\* s with U+FFFD in the place of every surrogate that has no partner
Scrubbed(s) ==
  [i \in DOMAIN s |->
     IF \/ IsHigh(s[i]) /\ ~(i < Len(s) /\ IsLow(s[i + 1]))
        \/ IsLow(s[i]) /\ ~(i > 1 /\ IsHigh(s[i - 1]))
       THEN 65533 ELSE s[i]]

\* C10 amended: a read_bytes() that follows a write_bytes(b) returns exactly
\* b, whatever the file held before; a read_text() that follows a
\* write_text(s) returns s with every unpaired surrogate replaced by U+FFFD,
\* which is s exactly when s is well-formed UTF-16.
C10_RoundTrip ==
  [][/\ (last.op = "write_bytes" /\ last.err = NoErr /\ last'.op = "read_bytes")
          => (last'.err = NoErr /\ last'.ret.data = last.data)
     /\ (last.op = "write_text" /\ last.err = NoErr /\ last'.op = "read_text")
          => /\ last'.err = NoErr
             /\ last'.ret.data = Scrubbed(last.data)
             /\ WellFormed(last.data) <=> last'.ret.data = last.data]_vars

\* C10 witness: a surrogate pair was written over other content as four
\* bytes and read back as the same two code units.
C10_Witness ==
  /\ last.op = "read_text"
  /\ last.err = NoErr
  /\ last.ret.data = <<55357, 56832>>
  /\ sys_read(fs, <<"a", "f">>).data = <<240, 159, 152, 128>>


(***************************************************************************)
(* SpecChunks: File.it_bytes_sync / it_bytes driven to the end by a        *)
(* consumer that copies each chunk as it is yielded and also keeps the     *)
(* yielded Buffer objects.                                                 *)
(***************************************************************************)
MaxFile == 6
MaxChunk == 3

Min(a, b) == IF a < b THEN a ELSE b

\* the generator frame once it_bytes_sync(_chunkSize) / it_bytes(_chunkSize)
\* is called: nothing of the body has run yet
it_bytes(form, n) ==
  [form |-> form, n |-> n, pc |-> "created", fd |-> "none", pos |-> 0,
   buffer |-> [i \in 1..n |-> 0], bytesRead |-> 0]

\* fs.readSync(fd, buffer, 0, _chunkSize, null) / fd.read: up to n bytes from
\* the file position into the start of the buffer
sys_readInto(data, g) ==
  LET k == Min(g.n, Len(data) - g.pos)
  IN [g EXCEPT !.bytesRead = k, !.pos = g.pos + k,
               !.buffer = [i \in 1..g.n |-> IF i <= k THEN data[g.pos + i]
                                            ELSE g.buffer[i]]]

\* one next() on the generator: runs the body to its next yield or to its
\* end.  yielded: the length of the subarray(0, bytesRead) yielded, 0 when
\* the generator has finished; the subarray is a view of g.buffer
it_bytes_next(f, p, g) ==
  LET r == sys_read(f, p)
      closed == [g EXCEPT !.pc = "done",
                          !.fd = IF g.fd = "open" THEN "closed" ELSE g.fd]
  IN IF g.pc = "done" THEN [err |-> NoErr, gen |-> g, yielded |-> 0]
     ELSE IF g.pc = "created" /\ r.err # "OK"
       THEN [err |-> Errno(r.err), gen |-> closed, yielded |-> 0]
     ELSE IF g.pc = "suspended" /\ g.bytesRead # g.n
       THEN [err |-> NoErr, gen |-> closed, yielded |-> 0]
     ELSE LET h == sys_readInto(r.data, [g EXCEPT !.fd = "open"])
          IN IF h.bytesRead > 0
               THEN [err |-> NoErr, gen |-> [h EXCEPT !.pc = "suspended"],
                     yielded |-> h.bytesRead]
             ELSE [err |-> NoErr,
                   gen |-> [h EXCEPT !.pc = "done", !.fd = "closed"],
                   yielded |-> 0]

\* the file contents: 1, 2, ..., len, and a 10000-byte file
Counting(len) == [i \in 1..len |-> i]

ChunkCases ==
  {[data |-> Counting(len), n |-> n] : len \in 0..MaxFile, n \in 1..MaxChunk}
    \cup {[data |-> [i \in 1..10000 |-> i % 251], n |-> 4096]}

ChunkInit ==
  /\ \E c \in ChunkCases, form \in {"it_bytes_sync", "it_bytes"} :
       /\ fs = (<<>> :> DirE) @@ (<<"a">> :> DirE) @@ (<<"a", "f">> :> FileE(c.data))
       /\ rt = [gen |-> it_bytes(form, c.n), held |-> <<>>, eager |-> <<>>]
  /\ nodes = (1 :> Node("File", <<"a", "f">>, TRUE))
  /\ last = NoCall
  /\ budget = 0

\* the consumer asks for the next chunk, copies it, and keeps the Buffer
ChunkNext ==
  /\ rt.gen.pc # "done"
  /\ LET o == it_bytes_next(fs, nodes[1].pointsTo, rt.gen)
         chunk == SubSeq(o.gen.buffer, 1, o.yielded)
     IN /\ rt' = [gen |-> o.gen,
                  held |-> IF o.yielded > 0 THEN Append(rt.held, o.yielded)
                           ELSE rt.held,
                  eager |-> rt.eager \o chunk]
        /\ last' = Last("next", 1, 0, <<>>, <<>>,
                        Out(o.err, fs, nodes[1], Bytes(chunk), <<"read">>))
  /\ UNCHANGED <<fs, nodes, budget>>

ChunkNextStep == ChunkNext

SpecChunks == ChunkInit /\ [][ChunkNextStep]_vars

\* the Buffers the consumer kept, concatenated now: each is the first
\* held[j] bytes of the generator's one buffer
RECURSIVE ConcatHeld(_, _, _)
ConcatHeld(buffer, held, j) ==
  IF j > Len(held) THEN <<>>
  ELSE SubSeq(buffer, 1, held[j]) \o ConcatHeld(buffer, held, j + 1)

Collected == ConcatHeld(rt.gen.buffer, rt.held, 1)

FileBytes == fs[<<"a", "f">>].data

\* C11 as claimed: when the iteration has ended, the chunks concatenated in
\* order are the file's bytes, both when each chunk was copied as it came
\* and when the chunks were collected and concatenated afterwards; every
\* chunk but the last has length n, none is empty, and 10000 bytes with
\* n = 4096 end with a chunk shorter than 4096.
C11_ChunksAsClaimed ==
  rt.gen.pc = "done"
    => /\ rt.eager = FileBytes
       /\ Collected = FileBytes
       /\ \A j \in DOMAIN rt.held :
            /\ rt.held[j] > 0
            /\ j < Len(rt.held) => rt.held[j] = rt.gen.n
       /\ (Len(FileBytes) = 10000 /\ rt.gen.n = 4096)
            => (Len(rt.held) = 3 /\ rt.held[3] < 4096)

\* C11 failing case: the 10000-byte file was iterated with n = 4096 to the
\* end; the chunks copied one by one give the file, the collected chunks
\* concatenated afterwards do not.
C11_Witness ==
  /\ rt.gen.pc = "done"
  /\ rt.gen.fd = "closed"
  /\ Len(FileBytes) = 10000
  /\ rt.eager = FileBytes
  /\ Collected # FileBytes

(***************************************************************************)
(* Folder.list and Folder.find.  A mutable folder /a starts empty; files,  *)
(* folders and links are created in it and deleted from it through the     *)
(* library, and the folder is listed and searched in between.              *)
(***************************************************************************)
ListSteps == 3

\* the entries of a directory in the order readdir gives them
RECURSIVE SetToSeq(_)
SetToSeq(S) ==
  IF S = {} THEN <<>>
  ELSE LET x == CHOOSE y \in S : TRUE IN <<x>> \o SetToSeq(S \ {x})

\* fs.readdirSync(p) / fp.readdir(p): follows symbolic links
sys_readdir(f, p) ==
  LET r == Lookup(f, p, TRUE)
  IN IF r.err # "OK" THEN [err |-> r.err, entries |-> <<>>]
     ELSE IF f[r.at].kind # "dir" THEN [err |-> "ENOTDIR", entries |-> <<>>]
     ELSE [err |-> "OK", entries |-> SetToSeq({basename(q) : q \in Children(f, r.at)})]

\* entries.filter(entry => entry instanceof expectedType); "" is no expectedType
RECURSIVE FilterType(_, _)
FilterType(ns, K) ==
  IF ns = <<>> THEN <<>>
  ELSE IF K = "" \/ InstanceOf(Head(ns).cls, K)
    THEN <<Head(ns)>> \o FilterType(Tail(ns), K)
  ELSE FilterType(Tail(ns), K)

\* Folder.list_sync(expectedType?) / list: Road.factory on every readdir
\* entry; the first one that throws ends the call
list(f, n, K) ==
  LET d == sys_readdir(f, n.pointsTo)
      made == [j \in DOMAIN d.entries |-> factory(f, Abs(join(n.pointsTo, <<d.entries[j]>>)))]
      bad == {j \in DOMAIN made : made[j].err # NoErr}
      first == CHOOSE j \in bad : \A k \in bad : j <= k
  IN IF d.err # "OK" THEN [err |-> Errno(d.err), listed |-> <<>>]
     ELSE IF bad # {} THEN [err |-> made[first].err, listed |-> <<>>]
     ELSE [err |-> NoErr, listed |-> FilterType([j \in DOMAIN made |-> made[j].node], K)]

\* Folder.find_sync(name, _expectedType?) / find: access and factory on
\* join(name) inside try, null (NoNode) from catch; nm is name split at "/"
find(f, n, nm, K) ==
  LET at == Abs(join(n.pointsTo, nm))
      found == factory(f, at)
  IN IF sys_access(f, at) # "OK" THEN Out(NoErr, f, n, Made(NoNode), <<"access">>)
     ELSE IF found.err # NoErr THEN Out(NoErr, f, n, Made(NoNode), <<"access", "access">>)
     ELSE IF K = "" \/ InstanceOf(found.node.cls, K)
       THEN Out(NoErr, f, n, Made(found.node), <<"access", "access", "lstat">>)
     ELSE Out(NoErr, f, n, Made(NoNode), <<"access", "access", "lstat">>)

ListTree == (<<>> :> DirE) @@ (<<"a">> :> DirE)

ListNodes == 1 :> Construct(ListTree, "Folder", Abs(<<"a">>)).node

\* the children made and deleted, and a grandchild
ListPaths == {<<"a", "x">>, <<"a", "y">>, <<"a", "z">>, <<"a", "y", "w">>}

\* the name arguments of find: entry names, "", ".." and "y/w"
FindNames == {<<"x">>, <<"y">>, <<"z">>, <<"q">>, <<>>, <<"..">>, <<"y", "w">>}

ListTypes == {"", "File", "Folder", "SymbolicLink"}

ListInit ==
  /\ fs = ListTree
  /\ nodes = ListNodes
  /\ last = NoCall
  /\ budget = ListSteps
  /\ rt = [listed |-> <<>>]

\* a call on the folder that changes nothing on disk
Ask(op, nm, K, err, ret, listed) ==
  /\ last' = [Last(op, 1, 0, nm, <<>>, Out(err, fs, nodes[1], ret, <<>>)) EXCEPT !.cls = K]
  /\ rt' = [listed |-> listed]
  /\ UNCHANGED <<fs, nodes, budget>>

ListCreateFile ==
  \E p \in ListPaths :
    /\ Static("File.create", "File", Abs(p), File_create(fs, Abs(p)))

ListCreateFolder ==
  \E p \in ListPaths :
    /\ Static("Folder.create", "Folder", Abs(p), Folder_create(fs, Abs(p)))

ListCreateLink ==
  \E p \in ListPaths, t \in ListPaths :
    \E c \in {factory(fs, Abs(t))} :
      /\ c.err = NoErr
      /\ Static("SymbolicLink.create", "SymbolicLink", Abs(p),
                SymbolicLink_create(fs, Abs(p), c.node))

ListDelete ==
  \E p \in ListPaths :
    \E c \in {factory(fs, Abs(p))} :
      /\ c.err = NoErr
      /\ Static("delete", c.node.cls, Abs(p), delete(fs, c.node))

ListList ==
  \E K \in ListTypes :
    \E r \in {list(fs, nodes[1], K)} : Ask("list", <<>>, K, r.err, Void, r.listed)

ListFind ==
  \E nm \in FindNames, K \in ListTypes :
    \E r \in {find(fs, nodes[1], nm, K)} : Ask("find", nm, K, r.err, r.ret, <<>>)

ListNext ==
  \/ ListCreateFile
  \/ ListCreateFolder
  \/ ListCreateLink
  \/ ListDelete
  \/ ListList
  \/ ListFind

SpecFolder == ListInit /\ [][ListNext]_vars

\* the immediate entries of the folder nodes[1] that are of kind K
EntriesOf(K) ==
  {q \in Children(fs, nodes[1].pointsTo) :
     K = "" \/ InstanceOf(ClassOfKind(fs[q].kind), K)}

\* C12: Folder.list() returns exactly one node per current immediate entry
\* of the directory, of the concrete class of the entry's kind and with
\* name() the entry name; list(K) returns exactly the entries of kind K
C12_ListAsClaimed ==
  last.op = "list" =>
    /\ last.err = NoErr
    /\ Len(rt.listed) = Cardinality(EntriesOf(last.cls))
    /\ \A q \in EntriesOf(last.cls) :
         \E j \in DOMAIN rt.listed :
           /\ rt.listed[j].cls = ClassOfKind(fs[q].kind)
           /\ rt.listed[j].pointsTo = q
           /\ name(rt.listed[j]) = basename(q)

\* a listing of a folder holding a link whose target was deleted
C12_Witness ==
  /\ last.op = "list"
  /\ \E q \in Children(fs, nodes[1].pointsTo) :
       fs[q].kind = "link" /\ Lookup(fs, q, TRUE).err = "ENOENT"
  /\ last.err # NoErr

\* C13: for every string name, find(name, K) returns a node only if an
\* entry called name is an immediate child of the folder (of kind K when K
\* is given), and then the node's parent is the folder and its name() is
\* name; in every other case it returns null and never raises
C13_FindAsClaimed ==
  last.op = "find" =>
    /\ last.err = NoErr
    /\ last.ret.node # NoNode =>
         /\ Len(last.to) = 1
         /\ nodes[1].pointsTo \o last.to \in EntriesOf(last.cls)
         /\ dirname(last.ret.node.pointsTo) = nodes[1].pointsTo
         /\ name(last.ret.node) = last.to[1]

\* find("") has returned the folder itself
C13_Witness ==
  /\ last.op = "find"
  /\ last.to = <<>>
  /\ last.ret.node = nodes[1]

(***************************************************************************)
(* SymbolicLink.target and the two steps of SymbolicLink.retarget.  The    *)
(* run holds link instances 1..6 and the nodes 7..9 passed as _newTarget;  *)
(* between the delete and the symlink of retarget the run may stop, or     *)
(* another task may create a file at the link's location.                  *)
(***************************************************************************)
LinkSteps == 3

LinkTree ==
  (<<>> :> DirE)
  @@ (<<"a">> :> DirE)
  @@ (<<"a", "f">> :> FileE(<<1>>))
  @@ (<<"a", "d">> :> DirE)
  @@ (<<"a", "d", "g">> :> FileE(<<2>>))
  @@ (<<"a", "d", "u">> :> LinkE(Raw(FALSE, <<"..", "f">>)))
  @@ (<<"a", "l">> :> LinkE(Raw(FALSE, <<"f">>)))
  @@ (<<"a", "m">> :> LinkE(Abs(<<"a", "d">>)))
  @@ (<<"a", "j">> :> LinkE(Raw(FALSE, <<"l">>)))
  @@ (<<"a", "x">> :> LinkE(Raw(FALSE, <<"gone">>)))
  @@ (<<"a", "k">> :> LinkE(Raw(FALSE, <<"x">>)))
  @@ (<<"a", "p">> :> SpecialE("fifo"))
  @@ (<<"a", "q">> :> LinkE(Abs(<<"a", "p">>)))
  @@ (<<"b">> :> LinkE(Abs(<<"a", "d">>)))

\* node 6 is the link /a/d/u built from the path /b/u, node 4 was marked
\* immutable, node 9 was built when the target of /a/x was still there
LinkNodes ==
  (1 :> Construct(LinkTree, "SymbolicLink", Abs(<<"a", "l">>)).node)
  @@ (2 :> Construct(LinkTree, "SymbolicLink", Abs(<<"a", "m">>)).node)
  @@ (3 :> Construct(LinkTree, "SymbolicLink", Abs(<<"a", "j">>)).node)
  @@ (4 :> [Construct(LinkTree, "SymbolicLink", Abs(<<"a", "q">>)).node
              EXCEPT !.mutable = FALSE])
  @@ (5 :> Construct(LinkTree, "SymbolicLink", Abs(<<"a", "d", "u">>)).node)
  @@ (6 :> Construct(LinkTree, "SymbolicLink", Abs(<<"b", "u">>)).node)
  @@ (7 :> Construct(LinkTree, "File", Abs(<<"a", "f">>)).node)
  @@ (8 :> Construct(LinkTree, "Folder", Abs(<<"a", "d">>)).node)
  @@ (9 :> Node("SymbolicLink", <<"a", "k">>, TRUE))

Links == {1, 2, 3, 4, 5, 6, 9}

\* no retarget is between its two steps
Idle(was) == [pc |-> "idle", link |-> 0, to |-> 0, was |-> was]

LinkInit ==
  /\ fs = LinkTree
  /\ nodes = LinkNodes
  /\ last = NoCall
  /\ budget = LinkSteps
  /\ rt = Idle(LinkTree)

\* a step of a call on nodes[i] ends with outcome o and leaves r running
Step(i, op, into, o, r) ==
  /\ budget > 0
  /\ budget' = budget - 1
  /\ fs' = o.fs
  /\ nodes' = nodes
  /\ last' = Last(op, i, into, <<>>, <<>>, o)
  /\ rt' = r

\* the symlink step of retarget: fs.symlinkSync(_newTarget.isAt, this.isAt)
retarget_symlink(f, n, newTarget) ==
  LET r == sys_symlink(f, Abs(newTarget.pointsTo), n.pointsTo)
  IN Out(IF r.err = "OK" THEN NoErr ELSE Errno(r.err), r.fs, n, Void,
         <<"unlink", "symlink">>)

LinkTarget ==
  \E i \in Links :
    /\ rt.pc = "idle"
    /\ \E t \in {target(fs, nodes[i])} :
         Step(i, "target", 0, Out(t.err, fs, nodes[i], Made(t.node), <<>>), rt)

\* assert_mutable and delete_sync: the link is gone, the symlink is to come
LinkRetargetDelete ==
  \E i \in Links, j \in DOMAIN nodes :
    /\ rt.pc = "idle"
    /\ \E d \in {SymbolicLink_delete(fs, nodes[i])} :
         IF d.err # NoErr THEN Step(i, "retarget", j, d, Idle(fs))
         ELSE Step(i, "retarget.delete", j, d,
                   [pc |-> "deleted", link |-> i, to |-> j, was |-> fs])

LinkRetargetSymlink ==
  /\ rt.pc = "deleted"
  /\ Step(rt.link, "retarget", rt.to,
          retarget_symlink(fs, nodes[rt.link], nodes[rt.to]), [rt EXCEPT !.pc = "idle"])

\* the run ends between the two steps
LinkStop ==
  /\ rt.pc = "deleted"
  /\ rt' = [rt EXCEPT !.pc = "stopped"]
  /\ UNCHANGED <<fs, nodes, last, budget>>

\* another task creates a file where the link was
LinkOther ==
  /\ rt.pc = "deleted"
  /\ \E c \in {File_create(fs, Abs(nodes[rt.link].pointsTo))} :
       /\ c.fs # fs
       /\ fs' = c.fs
  /\ UNCHANGED <<nodes, last, budget, rt>>

LinkNext ==
  \/ LinkTarget
  \/ LinkRetargetDelete
  \/ LinkRetargetSymlink
  \/ LinkStop
  \/ LinkOther

SpecLink == LinkInit /\ [][LinkNext]_vars

\* where the entry of a path is kept, whether it is there or not
PhysLoc(f, p) == Lookup(f, p, FALSE).at

\* the entry the stored target of the link at p names: t is taken from the
\* directory the link is in, and a final symbolic link is not followed
Named(f, p) ==
  LET t == f[PhysLoc(f, p)].target
  IN Walk(f, IF t.abs THEN <<>> ELSE Parent(PhysLoc(f, p)), t.segs, FALSE, LinkFuel)

IsLinkAt(f, p) ==
  Lookup(f, p, FALSE).err = "OK" /\ f[PhysLoc(f, p)].kind = "link"

\* C14: for a symbolic link whose stored target t, absolute or relative to
\* the link's directory, names an existing entry of kind K, target() returns
\* an instance of K's class located at resolve(dirname(link), t); the target
\* is read again on every call
C14_TargetAsClaimed ==
  (/\ last.op = "target"
   /\ IsLinkAt(fs, nodes[last.id].pointsTo)
   /\ Named(fs, nodes[last.id].pointsTo).err = "OK")
  => LET n == nodes[last.id]
         t == fs[PhysLoc(fs, n.pointsTo)].target
     IN /\ last.err = NoErr
        /\ last.ret.node.cls = ClassOfKind(fs[Named(fs, n.pointsTo).at].kind)
        /\ last.ret.node.pointsTo = resolve2(dirname(n.pointsTo), t)

\* target() has thrown on the link k whose target x is a link to nothing
C14_Witness ==
  /\ last.op = "target"
  /\ nodes[last.id].pointsTo = <<"a", "k">>
  /\ fs[<<"a", "k">>].target = Raw(FALSE, <<"x">>)
  /\ fs[<<"a", "x">>].kind = "link"
  /\ last.err = Errno("ENOENT")

\* every entry of was other than the one kept at loc is in f as it was
SameBut(f, was, loc) ==
  /\ (DOMAIN f) \ {loc} = (DOMAIN was) \ {loc}
  /\ \A q \in (DOMAIN was) \ {loc} : f[q] = was[q]

\* C15: retarget(N) on a mutable link is delete-then-create: when it
\* succeeds a link is at the same location as before, target() resolves to
\* N's location and neither N nor the previous target is modified; between
\* the two steps no entry is at the link's location, and when the run stops
\* there or the create step fails, no link remains at that location
C15_RetargetAsClaimed ==
  LET n == nodes[last.id]
      N == nodes[last.into]
      loc == PhysLoc(rt.was, n.pointsTo)
  IN /\ (last.op = "retarget" /\ last.err = NoErr) =>
          /\ n.mutable
          /\ IsLinkAt(fs, n.pointsTo) /\ PhysLoc(fs, n.pointsTo) = loc
          /\ target(fs, n).err = NoErr
          /\ target(fs, n).node.pointsTo = N.pointsTo
          /\ SameBut(fs, rt.was, loc)
          /\ PhysLoc(rt.was, N.pointsTo) \in DOMAIN fs
          /\ fs[PhysLoc(rt.was, N.pointsTo)] = rt.was[PhysLoc(rt.was, N.pointsTo)]
     /\ last.op = "retarget.delete" =>
          /\ SameBut(fs, rt.was, loc)
          /\ loc \notin DOMAIN fs \/ fs[loc].kind = "file"
          /\ rt.pc \in {"deleted", "stopped"}
     /\ (last.op = "retarget" /\ last.err # NoErr /\ n.mutable) =>
          /\ ~IsLinkAt(fs, n.pointsTo)
          /\ SameBut(fs, rt.was, loc)

\* retarget(N) has succeeded for a link N whose own target is missing, and
\* target() on the retargeted link raises
C15_Witness ==
  /\ last.op = "retarget"
  /\ last.err = NoErr
  /\ last.id = 1
  /\ last.into = 9
  /\ fs[<<"a", "l">>] = LinkE(Abs(<<"a", "k">>))
  /\ target(fs, nodes[1]).err = Errno("ENOENT")

(***************************************************************************)
(* Road.until_accessible, Road.on_change and the background loop of        *)
(* LiveFile.  One task runs on the file /a/f: a call of until_accessible,  *)
(* a call of on_change with an asynchronous callback, or the loop started  *)
(* by new LiveFile.  The file is written, removed, created again and has   *)
(* its permissions changed by others while the task runs, and the abort    *)
(* signal of the task may fire at any moment.                              *)
(***************************************************************************)
WatchSteps == 4

\* on(watcher, 'change', { signal }): the iterator before on() is called
NoIter ==
  [made |-> FALSE, listening |-> FALSE, size |-> 0, error |-> FALSE,
   finished |-> FALSE, pending |-> FALSE]

\* on(): the 'change' listener and the abort listener are attached
on_new == [NoIter EXCEPT !.made = TRUE, !.listening = TRUE]

\* iterator.next(): unread events first, then the stored error, then done,
\* else a promise that stays pending
on_next(it) ==
  IF it.size > 0 THEN [kind |-> "value", it |-> [it EXCEPT !.size = it.size - 1]]
  ELSE IF it.error THEN [kind |-> "error", it |-> [it EXCEPT !.error = FALSE]]
  ELSE IF it.finished THEN [kind |-> "done", it |-> it]
  ELSE [kind |-> "pending", it |-> [it EXCEPT !.pending = TRUE]]

\* the 'change' listener: resolves the pending promise or queues the event
on_event(it) ==
  IF it.pending THEN [it EXCEPT !.pending = FALSE]
  ELSE [it EXCEPT !.size = it.size + 1]

\* faulty variant: the abort listener does nothing
on_abort_ignored(it) == it

\* the abort listener: rejects the pending promise or stores the error,
\* then removes the listeners
on_abort(it) ==
  [it EXCEPT !.pending = FALSE, !.error = ~it.pending, !.listening = FALSE,
             !.finished = TRUE]

\* iterator.return(), called when the loop body returns
on_return(it) == [it EXCEPT !.listening = FALSE, !.finished = TRUE]

\* fs.watch(this.isAt): throws when the path does not resolve
fs_watch(f, p) == Lookup(f, p, TRUE).err

\* Road.accessible(_mode); denied says the mode asked for is not granted
accessible_never_throws(f, n, denied) ==
  [err |-> "", ok |-> sys_access(f, Abs(n.pointsTo)) = "OK" /\ ~denied]

accessible(f, n, denied) ==
  LET a == sys_access(f, Abs(n.pointsTo))
      code == IF a = "OK" /\ denied THEN "EACCES" ELSE a
  IN [err |-> IF code \in {"OK", "ENOENT", "EACCES"} THEN "" ELSE code,
      ok |-> code = "OK"]

\* no task has been started
NoTask ==
  [op |-> "none", pc |-> "idle", err |-> "", watcher |-> "none", it |-> NoIter,
   aborted |-> FALSE, denied |-> FALSE, r |-> FALSE, cb |-> FALSE,
   received |-> 0, invoked |-> 0, late |-> FALSE,
   lastReadContent |-> <<>>, buf |-> <<>>, reads |-> 0, waited |-> FALSE]

\* finally { watcher.close() }, then the promise settles; in the LiveFile
\* loop a rejection ends the task, and a return of on_change leads to
\* while (!signal.aborted) and, if it has not fired, to the next update()
Finally(t, err) ==
  LET u == [t EXCEPT !.watcher = IF t.watcher = "open" THEN "closed" ELSE t.watcher]
  IN IF err # "" THEN [u EXCEPT !.pc = "rejected", !.err = err]
     ELSE IF t.op = "LiveFile" /\ ~t.aborted
       THEN [u EXCEPT !.pc = "reading", !.reads = t.reads + 1]
     ELSE [u EXCEPT !.pc = "resolved"]

\* the loop body is entered with one event
Body(t) ==
  IF t.op = "until_accessible" THEN [t EXCEPT !.pc = "check"]
  ELSE [t EXCEPT !.pc = "cb", !.invoked = t.invoked + 1,
                 !.late = t.late \/ t.aborted]

\* for await (const _ of iterator): next() is called and its outcome taken;
\* with no callback (LiveFile) the body is empty and next() is called again
RECURSIVE Loop(_)
Loop(t) ==
  LET r == on_next(t.it)
      u == [t EXCEPT !.it = r.it]
  IN CASE r.kind = "value" -> IF t.op = "LiveFile" THEN Loop(u) ELSE Body(u)
       [] r.kind = "error" -> Finally(u, "AbortError")
       [] r.kind = "done" -> Finally(u, "")
       [] r.kind = "pending" -> [u EXCEPT !.pc = "waiting", !.waited = TRUE]

\* on(watcher, 'change', { signal }) throws when the signal has fired
Subscribe(t) ==
  IF t.aborted THEN Finally(t, "AbortError")
  ELSE Loop([t EXCEPT !.it = on_new])

\* Road.on_change(_abortSignal, _thenDo?) up to its first suspension
on_change(f, n, t) ==
  IF fs_watch(f, n.pointsTo) # "OK" THEN Finally(t, fs_watch(f, n.pointsTo))
  ELSE Subscribe([t EXCEPT !.watcher = "open"])

\* the watcher emits 'change'
Deliver(t) ==
  IF t.watcher # "open" \/ ~t.it.listening THEN t
  ELSE LET u == [t EXCEPT !.it = on_event(t.it), !.received = t.received + 1]
       IN IF ~t.it.pending THEN u
          ELSE IF t.op = "LiveFile" THEN Loop(u)
          ELSE Body(u)

\* abortController.abort()
Abort(t) ==
  LET u == [t EXCEPT !.aborted = TRUE]
      v == [u EXCEPT !.it = on_abort(t.it)]
  IN IF ~t.it.listening THEN u
     ELSE IF t.it.pending /\ ~v.it.pending THEN Finally(v, "AbortError")
     ELSE v

WatchTree ==
  (<<>> :> DirE) @@ (<<"a">> :> DirE) @@ (<<"a", "f">> :> FileE(<<1>>))

\* the instance was made when the file existed
WatchNodes == 1 :> Construct(WatchTree, "File", Abs(<<"a", "f">>)).node

WatchInit ==
  /\ fs \in {WatchTree, Remove(WatchTree, {<<"a", "f">>})}
  /\ nodes = WatchNodes
  /\ last = NoCall
  /\ budget = WatchSteps
  /\ rt \in {NoTask, [NoTask EXCEPT !.denied = TRUE]}

\* a step of the task
Run(t) ==
  /\ rt' = t
  /\ UNCHANGED <<fs, nodes, last, budget>>

\* a step taken by someone else: the tree becomes f, the task becomes t
Env(f, t) ==
  /\ budget > 0
  /\ budget' = budget - 1
  /\ fs' = f
  /\ rt' = t
  /\ UNCHANGED <<nodes, last>>

\* until_accessible is called: fs.watch, then accessible() is awaited
WatchUntilAccessible ==
  /\ rt.op = "none"
  /\ LET t == [rt EXCEPT !.op = "until_accessible"]
         w == fs_watch(fs, nodes[1].pointsTo)
     IN Run(IF w # "OK" THEN Finally(t, w)
            ELSE [t EXCEPT !.watcher = "open", !.pc = "check"])

\* on_change is called with a callback
WatchOnChange ==
  /\ rt.op = "none"
  /\ Run(on_change(fs, nodes[1], [rt EXCEPT !.op = "on_change", !.cb = TRUE]))

\* the access check of accessible() is made
WatchAccess ==
  /\ rt.pc = "check"
  /\ LET a == accessible(fs, nodes[1], rt.denied)
     IN Run(IF a.err # "" THEN Finally(rt, a.err)
            ELSE [rt EXCEPT !.r = a.ok, !.pc = "checked"])

\* until_accessible goes on after the check
WatchResume ==
  /\ rt.pc = "checked"
  /\ Run(IF rt.r THEN Finally([rt EXCEPT !.it = IF rt.it.made THEN on_return(rt.it)
                                                 ELSE rt.it], "")
         ELSE IF ~rt.it.made THEN Subscribe(rt)
         ELSE Loop(rt))

\* the callback of on_change has finished
WatchCbDone ==
  /\ rt.pc = "cb"
  /\ Run(Loop(rt))

\* new LiveFile(_at): the loop starts and update() is awaited
LiveFileNew ==
  /\ rt.op = "none"
  /\ ~rt.aborted
  /\ Construct(fs, "File", Abs(nodes[1].pointsTo)).err = NoErr
  /\ Run([rt EXCEPT !.op = "LiveFile", !.pc = "reading", !.reads = 1])

\* the file is read for update()
LiveRead ==
  /\ rt.pc = "reading"
  /\ \E o \in {read_bytes(fs, nodes[1])} :
       Run(IF o.err # NoErr THEN Finally(rt, o.err.code)
           ELSE [rt EXCEPT !.buf = o.ret.data, !.pc = "read"])

\* update() stores what was read, then on_change is awaited
LiveResume ==
  /\ rt.pc = "read"
  /\ Run(on_change(fs, nodes[1], [rt EXCEPT !.lastReadContent = rt.buf]))

WriteData == {<<1>>, <<2>>}

EnvWrite ==
  \E d \in WriteData :
    \E w \in {sys_write(fs, nodes[1].pointsTo, d, FALSE)} :
      /\ Lookup(fs, nodes[1].pointsTo, TRUE).err = "OK"
      /\ w.err = "OK"
      /\ Env(w.fs, Deliver(rt))

EnvChmod ==
  /\ Lookup(fs, nodes[1].pointsTo, TRUE).err = "OK"
  /\ Env(fs, Deliver([rt EXCEPT !.denied = ~rt.denied]))

EnvUnlink ==
  \E u \in {sys_unlink(fs, nodes[1].pointsTo)} :
    /\ u.err = "OK"
    /\ Env(u.fs, Deliver(rt))

\* whether a watcher opened on the removed file reports the new one
\* depends on the platform
EnvCreate ==
  \E c \in {File_create(fs, Abs(nodes[1].pointsTo))} :
    /\ c.fs # fs
    /\ \E t \in {rt, Deliver(rt)} : Env(c.fs, t)

\* the signal fires: abort() of the caller's controller, or the dispose
\* and asyncDispose methods of LiveFile
WatchAbort ==
  /\ ~rt.aborted
  /\ Env(fs, Abort(rt))

TaskStep ==
  \/ WatchAccess
  \/ WatchResume
  \/ WatchCbDone
  \/ LiveRead
  \/ LiveResume

WatchNext ==
  \/ WatchUntilAccessible
  \/ WatchOnChange
  \/ LiveFileNew
  \/ WatchAccess
  \/ WatchResume
  \/ WatchCbDone
  \/ LiveRead
  \/ LiveResume
  \/ EnvWrite
  \/ EnvChmod
  \/ EnvUnlink
  \/ EnvCreate
  \/ WatchAbort

SpecWatch == WatchInit /\ [][WatchNext]_vars

\* the event loop runs every continuation that is ready
SpecWatchFair == SpecWatch /\ WF_vars(TaskStep)

\* the path is accessible with the mode asked for
Accessible == accessible(fs, nodes[1], rt.denied).ok

Settled == rt.pc \in {"resolved", "rejected"}

\* C16: when the signal never fires and the path becomes accessible at some
\* moment after until_accessible is called (also when it does not exist at
\* the call, and when it changes between the first check and the
\* subscription to events), until_accessible eventually returns; when the
\* path is accessible at the first check it returns without waiting
C16_UntilAccessibleAsClaimed ==
  /\ (/\ [](rt.op \in {"none", "until_accessible"})
      /\ <>(rt.op = "until_accessible")
      /\ [](~rt.aborted)
      /\ <>[]Accessible)
     => <>(rt.op = "until_accessible" /\ rt.pc = "resolved")
  /\ [][(rt.op = "until_accessible" /\ rt.pc = "checked" /\ rt.r /\ ~rt.it.made)
        => (rt'.pc \in {"checked", "resolved"} /\ ~rt'.it.made /\ ~rt'.waited)]_vars

\* until_accessible was refused by fs.watch on the missing path, and the
\* path has become accessible since
C16_Witness ==
  /\ rt.op = "until_accessible"
  /\ rt.pc = "rejected"
  /\ rt.err = "ENOENT"
  /\ ~rt.aborted
  /\ Accessible

\* C17: when the signal fires while until_accessible or on_change waits for
\* a notification, or has fired before the wait starts, the operation ends
\* normally: the promise resolves and no error reaches the caller
C17_AbortEndsNormallyAsClaimed ==
  (rt.op \in {"until_accessible", "on_change"} /\ rt.aborted) =>
    /\ rt.pc # "waiting"
    /\ rt.err # "AbortError"

\* on_change was waiting when the signal fired and has rejected
C17_Witness ==
  /\ rt.op = "on_change"
  /\ rt.waited
  /\ rt.aborted
  /\ rt.pc = "rejected"
  /\ rt.err = "AbortError"
  /\ rt.watcher = "closed"

\* C18: on_change(signal, cb) invokes cb once for each notification, one at
\* a time and none lost, a notification that arrives while cb runs being
\* kept for later; once the signal has fired no invocation of cb starts
C18_OnChangeAsClaimed ==
  rt.op = "on_change" =>
    /\ rt.invoked + rt.it.size = rt.received
    /\ (rt.pc = "waiting" => rt.it.size = 0)
    /\ ~rt.late

\* cb was started for a queued notification after the signal had fired
C18_Witness ==
  /\ rt.op = "on_change"
  /\ rt.aborted
  /\ rt.late
  /\ rt.invoked = rt.received

\* the file is there and lastReadContent is what it holds
Fresh ==
  /\ nodes[1].pointsTo \in DOMAIN fs
  /\ rt.lastReadContent = fs[nodes[1].pointsTo].data

\* C19: for a LiveFile that is not disposed, after the initial load and
\* after every later notification of a change, lastReadContent eventually
\* equals the content on disk: the loop reloads after each notification
C19_LiveFileAsClaimed ==
  /\ (rt.op = "LiveFile" /\ rt.reads = 1 /\ rt.pc = "reading")
       ~> (rt.aborted \/ rt.pc # "reading")
  /\ \A k \in 1..WatchSteps :
       (rt.op = "LiveFile" /\ rt.received = k /\ ~rt.aborted)
         ~> (rt.aborted \/ nodes[1].pointsTo \notin DOMAIN fs \/ Fresh)

\* a notification has come for a write, and the content is the old one
C19_Witness ==
  /\ rt.op = "LiveFile"
  /\ rt.pc = "waiting"
  /\ rt.received > 0
  /\ rt.reads = 1
  /\ nodes[1].pointsTo \in DOMAIN fs
  /\ ~Fresh

\* C20: disposing a LiveFile at any point of its loop makes the task end;
\* no read is started after the disposal, and no watcher of the LiveFile is
\* open once the task has ended
C20_DisposeStops ==
  /\ (rt.op = "LiveFile" /\ rt.aborted) ~> Settled
  /\ [][(rt.op = "LiveFile" /\ rt.aborted) => rt'.reads = rt.reads]_vars
  /\ []((rt.op = "LiveFile" /\ Settled) => rt.watcher # "open")

\* the LiveFile was disposed while it waited for a notification
C20_Witness ==
  /\ rt.op = "LiveFile"
  /\ rt.aborted
  /\ rt.waited
  /\ Settled
  /\ rt.watcher = "closed"

(***************************************************************************)
(* The blocking and the suspending form of every operation, run from the   *)
(* same state.  last keeps the outcome of the blocking form, rt that of    *)
(* the suspending form; the run goes on from the blocking form's outcome.  *)
(***************************************************************************)
FormSteps == 2

\* faulty variant: the contents are compared wherever the files are
same_as_content(f, n, other) ==
  LET a == sys_read(f, n.pointsTo)
      b == sys_read(f, other.pointsTo)
  IN IF a.err # "OK" THEN Out(Errno(a.err), f, n, Bool(FALSE), <<"readFile">>)
     ELSE IF b.err # "OK"
       THEN Out(Errno(b.err), f, n, Bool(FALSE), <<"readFile", "readFile">>)
     ELSE Out(NoErr, f, n, Bool(a.data = b.data), <<"readFile", "readFile">>)

\* File.same_as_sync(_other) / same_as: no read when the locations differ
same_as(f, n, other) ==
  LET a == sys_read(f, n.pointsTo)
      b == sys_read(f, other.pointsTo)
  IN IF n.pointsTo # other.pointsTo THEN Out(NoErr, f, n, Bool(FALSE), <<>>)
     ELSE IF a.err # "OK" THEN Out(Errno(a.err), f, n, Bool(FALSE), <<"readFile">>)
     ELSE IF b.err # "OK"
       THEN Out(Errno(b.err), f, n, Bool(FALSE), <<"readFile", "readFile">>)
     ELSE Out(NoErr, f, n, Bool(a.data = b.data), <<"readFile", "readFile">>)

\* Road.accessible_sync(_mode) / accessible as a call on a node
accessible_call(f, n, denied) ==
  LET a == accessible(f, n, denied)
  IN Out(IF a.err = "" THEN NoErr ELSE Errno(a.err), f, n, Bool(a.ok), <<"access">>)

\* faulty variant: the entries whose factory fails are left out
list_async_settled(f, n, K) ==
  LET d == sys_readdir(f, n.pointsTo)
      made == [j \in DOMAIN d.entries |-> factory(f, Abs(join(n.pointsTo, <<d.entries[j]>>)))]
      good == SelectSeq([j \in DOMAIN made |-> made[j]], LAMBDA m : m.err = NoErr)
  IN IF d.err # "OK" THEN {[err |-> Errno(d.err), listed |-> <<>>]}
     ELSE {[err |-> NoErr, listed |-> FilterType([j \in DOMAIN good |-> good[j].node], K)]}

\* Folder.list: Promise.all over Road.factory of every readdir entry; it
\* rejects with the rejection that comes first, which may be any of them
list_async(f, n, K) ==
  LET d == sys_readdir(f, n.pointsTo)
      made == [j \in DOMAIN d.entries |-> factory(f, Abs(join(n.pointsTo, <<d.entries[j]>>)))]
      bad == {j \in DOMAIN made : made[j].err # NoErr}
  IN IF d.err # "OK" THEN {[err |-> Errno(d.err), listed |-> <<>>]}
     ELSE IF bad # {} THEN {[err |-> made[j].err, listed |-> <<>>] : j \in bad}
     ELSE {[err |-> NoErr, listed |-> FilterType([j \in DOMAIN made |-> made[j].node], K)]}

FormTree ==
  KindTree
  @@ (<<"b">> :> DirE)
  @@ (<<"b", "f">> :> FileE(<<1>>))
  @@ (<<"tmp">> :> DirE)
  @@ (<<"tmp", "t">> :> FileE(<<>>))

\* 1..7 one instance of every class, 8 and 9 folders also passed as _into,
\* 10 a file with the content of 1, 11 a second, immutable instance for the
\* file of 1, 12 a TempFile, 13 a link made when its target was there
FormNodes ==
  KindNodes
  @@ (8 :> Construct(FormTree, "Folder", Abs(<<"a">>)).node)
  @@ (9 :> Construct(FormTree, "Folder", Abs(<<"b">>)).node)
  @@ (10 :> Construct(FormTree, "File", Abs(<<"b", "f">>)).node)
  @@ (11 :> [Construct(FormTree, "File", Abs(<<"a", "f">>)).node EXCEPT !.mutable = FALSE])
  @@ (12 :> Construct(FormTree, "TempFile", Abs(<<"tmp", "t">>)).node)
  @@ (13 :> Node("SymbolicLink", <<"a", "x">>, TRUE))

\* the outcome of a suspending form
Async(o, listed) ==
  [err |-> o.err, fs |-> o.fs, node |-> o.node, ret |-> o.ret, listed |-> listed,
   listedSync |-> <<>>]

FormInit ==
  /\ fs = FormTree
  /\ nodes = FormNodes
  /\ last = NoCall
  /\ budget = FormSteps
  /\ rt = Async(Out(NoErr, FormTree, NoNode, Void, <<>>), <<>>)

\* the calls a run may make before its last one
Prep(op, i) ==
  \/ op = "delete" /\ i \in {1, 2, 3, 12}
  \/ op = "retarget" /\ i = 3
  \/ op = "move" /\ i = 1
  \/ op = "write_bytes" /\ i = 10
  \/ op = "File.create"

\* both forms of op have run on nodes[i] (i = 0: a static call): s is the
\* outcome of the blocking form, a that of the suspending form; a run is
\* some calls of Prep and then one call of any operation
Both(i, op, into, to, data, s, a) ==
  /\ budget > 0
  /\ budget' = IF Prep(op, i) THEN budget - 1 ELSE 0
  /\ fs' = s.fs
  /\ nodes' = IF i = 0 THEN nodes ELSE [nodes EXCEPT ![i] = s.node]
  /\ last' = Last(op, i, into, to, data, s)
  /\ rt' = a

FormFiles == {i \in DOMAIN FormNodes : InstanceOf(FormNodes[i].cls, "File")}
FormFolders == {i \in DOMAIN FormNodes : InstanceOf(FormNodes[i].cls, "Folder")}
FormLinks == {i \in DOMAIN FormNodes : FormNodes[i].cls = "SymbolicLink"}

FormQuery ==
  \E i \in DOMAIN nodes :
    \/ Both(i, "exists", 0, <<>>, <<>>, exists_sync(fs, nodes[i]),
            Async(exists(fs, nodes[i]), <<>>))
    \/ \E denied \in BOOLEAN :
         \E o \in {accessible_call(fs, nodes[i], denied)} :
           Both(i, "accessible", 0, <<>>, IF denied THEN <<1>> ELSE <<>>, o, Async(o, <<>>))

FormStatic ==
  \E raw \in CreatePaths \cup {Abs(<<"a", "x">>), Raw(FALSE, <<"..", "b", "f">>)} :
    \/ \E c \in {factory(fs, raw)} :
         \E o \in {Out(c.err, fs, NoNode, Made(c.node), <<>>)} :
           Both(0, "factory", 0, raw.segs, <<>>, o, Async(o, <<>>))
    \/ \E o \in {File_create(fs, raw)} :
         Both(0, "File.create", 0, raw.segs, <<>>, o, Async(o, <<>>))
    \/ \E o \in {Folder_create(fs, raw)} :
         Both(0, "Folder.create", 0, raw.segs, <<>>, o, Async(o, <<>>))
    \/ \E j \in {0, 1, 3} :
         \E o \in {SymbolicLink_create(fs, raw, IF j = 0 THEN NoNode ELSE nodes[j])} :
           Both(0, "SymbolicLink.create", j, raw.segs, <<>>, o, Async(o, <<>>))

FormIO ==
  \E i \in FormFiles :
    \/ \E o \in {read_bytes(fs, nodes[i])} :
         \/ Both(i, "read_bytes", 0, <<>>, <<>>, o, Async(o, <<>>))
         \/ Both(i, "update", 0, <<>>, <<>>, o, Async(o, <<>>))
    \/ \E o \in {read_text(fs, nodes[i])} :
         Both(i, "read_text", 0, <<>>, <<>>, o, Async(o, <<>>))
    \/ \E d \in WriteArgs :
         \/ \E o \in {write_bytes(fs, nodes[i], d)} :
              Both(i, "write_bytes", 0, <<>>, d, o, Async(o, <<>>))
         \/ \E o \in {append_bytes(fs, nodes[i], d)} :
              Both(i, "append_bytes", 0, <<>>, d, o, Async(o, <<>>))
         \/ \E o \in {write_text(fs, nodes[i], d)} :
              Both(i, "write_text", 0, <<>>, d, o, Async(o, <<>>))
    \/ \E j \in FormFiles :
         \E o \in {same_as(fs, nodes[i], nodes[j])} :
           Both(i, "same_as", j, <<>>, <<>>, o, Async(o, <<>>))

FormPositional ==
  \E i \in DOMAIN nodes :
    \/ \E o \in {delete(fs, nodes[i])} :
         Both(i, "delete", 0, <<>>, <<>>, o, Async(o, <<>>))
    \/ \E j \in FormFolders :
         \/ \E o \in {move(fs, nodes[i], nodes[j])} :
              Both(i, "move", j, <<>>, <<>>, o, Async(o, <<>>))
         \/ \E o \in {copy(fs, nodes[i], nodes[j])} :
              Both(i, "copy", j, <<>>, <<>>, o, Async(o, <<>>))
    \/ \E to \in RenameArgs :
         \E o \in {rename(fs, nodes[i], to)} :
           Both(i, "rename", 0, to, <<>>, o, Async(o, <<>>))

FormFolder ==
  \E i \in FormFolders, K \in ListTypes :
    \/ \E s \in {list(fs, nodes[i], K)} :
         \E a \in list_async(fs, nodes[i], K) :
           Both(i, "list", 0, <<K>>, <<>>, Out(s.err, fs, nodes[i], Void, <<>>),
                [Async(Out(a.err, fs, nodes[i], Void, <<>>), a.listed)
                   EXCEPT !.listedSync = s.listed])
    \/ \E nm \in {<<"f">>, <<"x">>, <<"gone">>, <<>>} :
         \E o \in {find(fs, nodes[i], nm, K)} :
           Both(i, "find", 0, nm, <<>>, o, Async(o, <<>>))

FormLink ==
  \E i \in FormLinks :
    \/ \E t \in {target(fs, nodes[i])} :
         \E o \in {Out(t.err, fs, nodes[i], Made(t.node), <<>>)} :
           Both(i, "target", 0, <<>>, <<>>, o, Async(o, <<>>))
    \/ \E j \in {1, 2, 3} :
         \E o \in {retarget(fs, nodes[i], nodes[j])} :
           Both(i, "retarget", j, <<>>, <<>>, o, Async(o, <<>>))

FormDispose ==
  \E o \in {dispose(fs, nodes[12])} :
    Both(12, "dispose", 0, <<>>, <<>>, o, Async(o, <<>>))

FormNext ==
  \/ FormQuery
  \/ FormStatic
  \/ FormIO
  \/ FormPositional
  \/ FormFolder
  \/ FormLink
  \/ FormDispose

SpecForms == FormInit /\ [][FormNext]_vars
MaxHigh == 1

\* set-uid, set-gid, sticky and rwx bits: bits 0..11 of a mode
ModePerms == {0, 1, PermBits, 7 * 64 + 5 * 8 + 5, 4095}

NoMode == [high |-> 0, type |-> 0, perm |-> 0, called |-> FALSE, threw |-> FALSE,
           cls |-> "none"]

ModeInit ==
  /\ fs = KindTree
  /\ nodes = KindNodes
  /\ last = NoCall
  /\ budget = 1
  /\ \E h \in (0 - MaxHigh)..MaxHigh, t \in 0..15, p \in ModePerms :
       rt = [NoMode EXCEPT !.high = h, !.type = t, !.perm = p]

\* roadType(_pathorMode) with a number: nothing is read from the file system
ModeRoadType ==
  /\ ~rt.called
  /\ \E c \in {roadType(rt.high * 65536 + rt.type * 4096 + rt.perm)} :
       rt' = [rt EXCEPT !.called = TRUE, !.threw = (c = "Unknown"), !.cls = c]
  /\ UNCHANGED <<fs, nodes, last, budget>>

ModeNext == ModeRoadType

SpecMode == ModeInit /\ [][ModeNext]_vars

\* the POSIX file-type constant of each class
FormatOf ==
  [c \in Concrete |->
     CASE c = "File" -> S_IFREG [] c = "Folder" -> S_IFDIR
       [] c = "BlockDevice" -> S_IFBLK [] c = "CharacterDevice" -> S_IFCHR
       [] c = "SymbolicLink" -> S_IFLNK [] c = "Fifo" -> S_IFIFO
       [] OTHER -> S_IFSOCK]

\* C22: roadType of a number returns the one class whose file-type constant
\* is the four type bits of the mode, whatever the permission bits and the
\* bits above are, throws when no class has these type bits, and leaves the
\* file system alone
C22_RoadTypeByFormat ==
  rt.called =>
    LET hit == {c \in Concrete : FormatOf[c] = rt.type * 4096}
    IN /\ rt.threw <=> hit = {}
       /\ ~rt.threw => hit = {rt.cls}
       /\ fs = KindTree

\* a mode with permission bits and no file type has been refused, and a
\* negative one too
C22_Witness ==
  /\ rt.called
  /\ rt.threw
  /\ rt.type = 0
  /\ rt.perm = 4095
  /\ rt.high < 0

\* what fs.accessSync(p, _mode) ends with on node n: denied says that the
\* permissions of the entry refuse _mode
Probe(f, n, denied) ==
  LET a == sys_access(f, Abs(n.pointsTo))
  IN IF a = "OK" /\ denied THEN "EACCES" ELSE a

\* C23: accessible returns true when the probe succeeds, returns false
\* without raising when the probe fails with ENOENT or EACCES, raises the
\* probe's error in every other case, and changes neither the file system
\* nor a node
C23_AccessibleAsClaimed ==
  [][last'.op = "accessible" =>
       LET code == Probe(fs, nodes[last'.id], last'.data # <<>>)
       IN /\ fs' = fs
          /\ nodes' = nodes
          /\ code = "OK" => last'.err = NoErr /\ last'.ret = Bool(TRUE)
          /\ code \in {"ENOENT", "EACCES"} => last'.err = NoErr /\ last'.ret = Bool(FALSE)
          /\ code \notin {"OK", "ENOENT", "EACCES"} => last'.err = Errno(code)]_vars

\* the probe of a link that names itself has failed with ELOOP, and
\* accessible has raised it
C23_Witness ==
  /\ last.op = "accessible"
  /\ last.err = Errno("ELOOP")
  /\ fs # FormTree

(***************************************************************************)
(* The names of temporary entries.  Date.now() is a clock that may or may  *)
(* not have advanced between two constructor calls;                    *)
(* crypto.randomUUID() returns an identifier it has not returned before    *)
(* (RFC 4122 version 4: 122 random bits).                                  *)
(***************************************************************************)
NameSlots == 2
MaxClock == 1

Digits == <<"0", "1", "2", "3", "4", "5">>
Letters == <<"a", "b", "c", "d", "e", "f">>
Uuids == 1..(NameSlots + 1)

\* faulty variant: the name is made of the clock alone
TempName_clock_only(prefix, now, uuid, ext) ==
  prefix \o "_" \o Digits[now + 1] \o ext

\* `tempfile_${Date.now()}_${crypto.randomUUID()}.tmp` and
\* `tempfolder_${Date.now()}_${crypto.randomUUID()}`
TempName(prefix, now, uuid, ext) ==
  prefix \o "_" \o Digits[now + 1] \o "_" \o Letters[uuid] \o ext

NamesTree == (<<>> :> DirE) @@ (tmpdir :> DirE)

NamesInit ==
  /\ fs = NamesTree
  /\ nodes = [i \in 1..NameSlots |-> NoNode]
  /\ last = NoCall
  /\ budget = 0
  /\ rt = [now |-> 0, drawn |-> {}, live |-> {}]

\* time passes between two calls
NamesTick ==
  /\ rt.now < MaxClock
  /\ rt' = [rt EXCEPT !.now = @ + 1]
  /\ UNCHANGED <<fs, nodes, last, budget>>

\* variable i of the program is given new TempFile() or new TempFolder()
NamesNew(i, prefix, ext, u) ==
  /\ nodes[i] = NoNode
  /\ u \notin rt.drawn
  /\ \E nm \in {TempName(prefix, rt.now, u, ext)} :
       \E c \in {IF prefix = "tempfile" THEN TempFile_new(fs, nm)
                                         ELSE TempFolder_new(fs, nm)} :
         /\ c.err = NoErr
         /\ fs' = c.fs
         /\ nodes' = [nodes EXCEPT ![i] = c.node]
         /\ last' = Last("new", i, 0, <<nm>>, <<>>, Out(c.err, c.fs, c.node, Made(c.node), <<>>))
  /\ rt' = [rt EXCEPT !.drawn = @ \cup {u}, !.live = @ \cup {i}]
  /\ UNCHANGED budget

NamesNewFile == \E i \in 1..NameSlots, u \in Uuids : NamesNew(i, "tempfile", ".tmp", u)

NamesNewFolder == \E i \in 1..NameSlots, u \in Uuids : NamesNew(i, "tempfolder", "", u)

\* [Symbol.dispose]() / [Symbol.asyncDispose]() of the instance in variable i
NamesDispose ==
  \E i \in rt.live :
    \E o \in {dispose(fs, nodes[i])} :
      /\ fs' = o.fs
      /\ nodes' = [nodes EXCEPT ![i] = o.node]
      /\ last' = Last("dispose", i, 0, <<>>, <<>>, o)
      /\ rt' = [rt EXCEPT !.live = @ \ {i}]
      /\ UNCHANGED budget

NamesNext ==
  \/ NamesTick
  \/ NamesNewFile
  \/ NamesNewFolder
  \/ NamesDispose

SpecNames == NamesInit /\ [][NamesNext]_vars

MaxAttempts == 3

Returned(k) == [kind |-> "value", of |-> k, message |-> ""]
Thrown(k) == [kind |-> "error", of |-> k, message |-> ""]
NewError(msg) == [kind |-> "error", of |-> 0, message |-> msg]
Pending == [kind |-> "pending", of |-> 0, message |-> ""]

\* the call of retry: maxAttempts is the parameter the loop counts down,
\* asked its value at the call; outcomes[k] tells whether the k-th call of
\* _fn returned
NoRetry ==
  [pc |-> "while", asked |-> 0, maxAttempts |-> 0, callback |-> "none",
   signal |-> "none", outcomes |-> <<>>, resolved |-> Pending, rejected |-> Pending]

Reject(t, e) == [t EXCEPT !.pc = "done", !.rejected = e]

\* faulty variant: the parameter is compared before it is decremented
retry_while_post(t) ==
  IF t.maxAttempts >= 0 /\ t.signal # "aborted"
    THEN [t EXCEPT !.pc = "try", !.maxAttempts = @ - 1]
  ELSE IF t.maxAttempts - 1 < 0
    THEN Reject([t EXCEPT !.maxAttempts = @ - 1], NewError("Max attempts exceeded"))
  ELSE Reject([t EXCEPT !.maxAttempts = @ - 1], NewError("Operation aborted"))

\* while (--_maxAttempts >= 0 && !(_abortSignal?.aborted ?? false)), and the
\* two throw statements behind the loop
retry_while(t) ==
  LET u == [t EXCEPT !.maxAttempts = @ - 1]
  IN IF u.maxAttempts >= 0 /\ u.signal # "aborted" THEN [u EXCEPT !.pc = "try"]
     ELSE IF u.maxAttempts < 0 THEN Reject(u, NewError("Max attempts exceeded"))
     ELSE Reject(u, NewError("Operation aborted"))

\* try { return await _fn() } catch (err) { if (_maxAttempts === 0) throw err
retry_try(t, returns) ==
  LET k == Len(t.outcomes) + 1
      u == [t EXCEPT !.outcomes = Append(@, returns)]
  IN IF returns THEN [u EXCEPT !.pc = "done", !.resolved = Returned(k)]
     ELSE IF u.maxAttempts = 0 THEN Reject(u, Thrown(k))
     ELSE [u EXCEPT !.pc = "callback"]

\* await _callbackOnError?.()
retry_callback(t) ==
  IF t.callback = "throws" THEN Reject(t, NewError("callback"))
  ELSE [t EXCEPT !.pc = "while"]

RetryInit ==
  /\ fs = NamesTree
  /\ nodes = <<>>
  /\ last = NoCall
  /\ budget = 0
  /\ \E n \in (0 - 1)..MaxAttempts, cb \in {"none", "returns", "throws"},
        sig \in {"none", "idle", "aborted"} :
       rt = [NoRetry EXCEPT !.asked = n, !.maxAttempts = n, !.callback = cb,
                            !.signal = sig]

RetryWhile ==
  /\ rt.pc = "while"
  /\ rt' = retry_while(rt)
  /\ UNCHANGED <<fs, nodes, last, budget>>

RetryTry ==
  /\ rt.pc = "try"
  /\ \E returns \in BOOLEAN : rt' = retry_try(rt, returns)
  /\ UNCHANGED <<fs, nodes, last, budget>>

RetryCallback ==
  /\ rt.pc = "callback"
  /\ rt' = retry_callback(rt)
  /\ UNCHANGED <<fs, nodes, last, budget>>

\* the owner of the signal aborts it
RetryAbort ==
  /\ rt.signal = "idle"
  /\ rt.pc # "done"
  /\ rt' = [rt EXCEPT !.signal = "aborted"]
  /\ UNCHANGED <<fs, nodes, last, budget>>

RetryNext ==
  \/ RetryWhile
  \/ RetryTry
  \/ RetryCallback
  \/ RetryAbort

SpecRetry == RetryInit /\ [][RetryNext]_vars

Invocations == Len(rt.outcomes)
AllFailed == \A k \in 1..Invocations : ~rt.outcomes[k]

\* C27: retry calls _fn one call at a time and at most n times; it resolves
\* exactly when a call returned, with the value of that call, which is the
\* last one made and the only one that returned; when n calls have thrown it
\* rejects with the error object of the n-th; with n <= 0 it makes no call
\* and rejects; once it has settled no further call is made
C27_RetryAsClaimed ==
  /\ [](/\ Invocations <= (IF rt.asked >= 1 THEN rt.asked ELSE 0)
        /\ (rt.pc = "done") <=> ((rt.resolved # Pending) # (rt.rejected # Pending))
        /\ rt.pc # "done" => AllFailed /\ rt.resolved = Pending /\ rt.rejected = Pending
        /\ \A k \in 1..Invocations : rt.outcomes[k] =>
              /\ k = Invocations
              /\ rt.resolved = Returned(k)
        /\ rt.resolved # Pending => Invocations >= 1 /\ rt.outcomes[Invocations]
        /\ (rt.asked >= 1 /\ Invocations = rt.asked /\ AllFailed) => rt.rejected = Thrown(rt.asked)
        /\ rt.asked <= 0 => Invocations = 0 /\ (rt.pc # "while" => rt.rejected # Pending))
  /\ [][rt.pc = "done" => rt' = rt]_vars

\* every one of three calls has thrown, and retry has rejected with the
\* error of the third
C27_Witness ==
  /\ rt.asked = 3
  /\ Invocations = 3
  /\ AllFailed
  /\ rt.rejected = Thrown(3)
  /\ rt.callback = "returns"

(***************************************************************************)
(* sleep(_ms, _abortSignal) of base.ts.  An AbortSignal dispatches its     *)
(* abort event once, when it is aborted, to the listeners it has then; a   *)
(* listener added to a signal that is already aborted is never called.     *)
(***************************************************************************)
MaxMs == 5

\* the promise of one call of sleep: timer is the timeout of setTimeout,
\* left the time until it is due, listener whether onAbort is registered on
\* the signal, settles how often resolve or reject was called to effect;
\* inTime records that the signal was aborted before the timeout ran
NoSleep ==
  [pc |-> "idle", ms |-> 0, left |-> 0, signal |-> "none", timer |-> "none",
   listener |-> FALSE, settles |-> 0, resolved |-> FALSE, rejected |-> Pending,
   inTime |-> FALSE]

\* the executor of the promise: setTimeout, then addEventListener
sleep_new(t) ==
  [t EXCEPT !.pc = "sleeping", !.left = t.ms, !.timer = "armed",
            !.listener = (t.signal # "none")]

\* the callback of setTimeout: removeEventListener, resolve()
sleep_timeout(t) ==
  [t EXCEPT !.pc = "done", !.timer = "fired", !.listener = FALSE,
            !.settles = @ + 1, !.resolved = TRUE]

\* onAbort: clearTimeout(timeout), reject(new Error("Sleep aborted"))
sleep_onAbort(t) ==
  [t EXCEPT !.pc = "done", !.timer = "cleared", !.listener = FALSE,
            !.settles = @ + 1, !.rejected = NewError("Sleep aborted")]

SleepInit ==
  /\ fs = NamesTree
  /\ nodes = <<>>
  /\ last = NoCall
  /\ budget = 0
  /\ \E ms \in 0..MaxMs, sig \in {"none", "idle"} :
       rt = [NoSleep EXCEPT !.ms = ms, !.signal = sig]

SleepCall ==
  /\ rt.pc = "idle"
  /\ rt' = sleep_new(rt)
  /\ UNCHANGED <<fs, nodes, last, budget>>

\* time passes
SleepTick ==
  /\ rt.timer = "armed"
  /\ rt.left > 0
  /\ rt' = [rt EXCEPT !.left = @ - 1]
  /\ UNCHANGED <<fs, nodes, last, budget>>

SleepTimeout ==
  /\ rt.timer = "armed"
  /\ rt.left = 0
  /\ rt' = sleep_timeout(rt)
  /\ UNCHANGED <<fs, nodes, last, budget>>

\* the owner of the signal aborts it, before the call of sleep, while the
\* timeout is pending, or afterwards; the listeners it has are called
SleepAbort ==
  /\ rt.signal = "idle"
  /\ \E u \in {[rt EXCEPT !.signal = "aborted", !.inTime = (rt.timer # "fired")]} :
       rt' = IF u.listener THEN sleep_onAbort(u) ELSE u
  /\ UNCHANGED <<fs, nodes, last, budget>>

SleepNext ==
  \/ SleepCall
  \/ SleepTick
  \/ SleepTimeout
  \/ SleepAbort

SpecSleep == SleepInit /\ [][SleepNext]_vars

\* C28: the promise of sleep settles at most once; when it has settled, it
\* has rejected with 'Sleep aborted' if the signal was aborted before the
\* timeout ran, a signal aborted before the call included, and has resolved
\* otherwise; without a signal it does not reject, and an abort after it
\* resolved changes nothing
C28_SleepAsClaimed ==
  /\ rt.settles <= 1
  /\ rt.pc = "done" =>
       /\ rt.settles = 1
       /\ IF rt.inTime THEN rt.rejected = NewError("Sleep aborted") /\ ~rt.resolved
          ELSE rt.resolved /\ rt.rejected = Pending
  /\ rt.signal = "none" => rt.rejected = Pending

\* sleep was called with a signal that was already aborted, and has resolved
C28_Witness ==
  /\ rt.pc = "done"
  /\ rt.inTime
  /\ rt.resolved
  /\ rt.ms > 0

(***************************************************************************)
(* File.create / File.create_sync step by step: the probe, the write and   *)
(* the constructor are three system calls, and another actor (a process,   *)
(* or for the suspending form another task) may act between them.          *)
(***************************************************************************)
MaxOthers == 2

RaceTree ==
  (<<>> :> DirE)
  @@ (<<"a">> :> DirE)
  @@ (<<"a", "f">> :> FileE(<<1>>))

RacePaths == {Abs(<<"a", "f">>), Abs(<<"a", "n">>), Raw(FALSE, <<"n">>),
              Raw(FALSE, <<"..", "a", "f">>)}

\* one call of create: at is _at, found what the probe ended with, existed
\* and before what was at _at when the write began, made the File returned
NoCreate ==
  [pc |-> "access", at |-> NoTarget, found |-> "", existed |-> FALSE,
   before |-> <<>>, err |-> NoErr, made |-> NoNode, others |-> 0]

\* try { fs.accessSync(_at, F_OK) }
create_access(f, t) ==
  LET a == sys_access(f, t.at)
  IN [t EXCEPT !.found = a, !.pc = IF a = "OK" THEN "new" ELSE "writeFile"]

\* catch { fs.writeFileSync(_at, "") }
create_writeFile(f, t) ==
  LET at == resolve(t.at)
      w == sys_write(f, at, <<>>, FALSE)
      u == [t EXCEPT !.existed = (at \in DOMAIN f),
                     !.before = IF at \in DOMAIN f THEN f[at].data ELSE <<>>]
  IN [fs |-> w.fs,
      t |-> IF w.err = "OK" THEN [u EXCEPT !.pc = "new"]
            ELSE [u EXCEPT !.pc = "done", !.err = Errno(w.err)]]

\* return new File(_at)
create_new(f, t) ==
  LET c == Construct(f, "File", t.at)
  IN [t EXCEPT !.pc = "done", !.err = c.err, !.made = c.node]

RaceInit ==
  /\ fs = RaceTree
  /\ nodes = <<>>
  /\ last = NoCall
  /\ budget = 0
  /\ \E at \in RacePaths : rt = [NoCreate EXCEPT !.at = at]

CreateAccess ==
  /\ rt.pc = "access"
  /\ rt' = create_access(fs, rt)
  /\ UNCHANGED <<fs, nodes, last, budget>>

CreateWriteFile ==
  /\ rt.pc = "writeFile"
  /\ \E w \in {create_writeFile(fs, rt)} :
       /\ fs' = w.fs
       /\ rt' = w.t
  /\ UNCHANGED <<nodes, last, budget>>

CreateNew ==
  /\ rt.pc = "new"
  /\ rt' = create_new(fs, rt)
  /\ UNCHANGED <<fs, nodes, last, budget>>

\* another actor writes a file
OtherWrite ==
  /\ rt.others < MaxOthers
  /\ \E q \in {<<"a", "f">>, <<"a", "n">>}, d \in {<<>>, <<7>>} :
       \E w \in {sys_write(fs, q, d, FALSE)} :
         /\ w.err = "OK"
         /\ fs' = w.fs
  /\ rt' = [rt EXCEPT !.others = @ + 1]
  /\ UNCHANGED <<nodes, last, budget>>

\* another actor removes a file
OtherUnlink ==
  /\ rt.others < MaxOthers
  /\ \E q \in {<<"a", "f">>, <<"a", "n">>} :
       \E w \in {sys_unlink(fs, q)} :
         /\ w.err = "OK"
         /\ fs' = w.fs
  /\ rt' = [rt EXCEPT !.others = @ + 1]
  /\ UNCHANGED <<nodes, last, budget>>

RaceNext ==
  \/ CreateAccess
  \/ CreateWriteFile
  \/ CreateNew
  \/ OtherWrite
  \/ OtherUnlink

SpecCreate == RaceInit /\ [][RaceNext]_vars

\* C26: no step of create changes a regular file that is at _at when the
\* step begins, whoever put it there and whenever; the write step of create
\* leaves an empty regular file where nothing was; the File create returns
\* points at the resolved _at
C26_CreateAsClaimed ==
  /\ [][rt'.pc # rt.pc =>
          LET at == resolve(rt.at)
          IN /\ (at \in DOMAIN fs /\ fs[at].kind = "file") =>
                  at \in DOMAIN fs' /\ fs'[at] = fs[at]
             /\ (rt.pc = "writeFile" /\ at \notin DOMAIN fs) =>
                  at \in DOMAIN fs' /\ fs'[at] = FileE(<<>>)]_vars
  /\ []((rt.pc = "done" /\ rt.err = NoErr) =>
          rt.made = Node("File", resolve(rt.at), TRUE))

\* create found nothing at _at, another actor then wrote a file there, and
\* the write of create has emptied it
C26_Witness ==
  /\ rt.pc = "done"
  /\ rt.err = NoErr
  /\ rt.found = "ENOENT"
  /\ rt.existed
  /\ rt.before # <<>>
  /\ fs[resolve(rt.at)] = FileE(<<>>)

(***************************************************************************)
(* File.it_bytes_sync / it_bytes statement by statement.  The consumer     *)
(* asks for chunk after chunk, or abandons the iteration at a yield (the   *)
(* return() that leaving a for-of loop calls).                             *)
(***************************************************************************)

\* the generator frame: pos is the position of the descriptor, abandoned
\* whether the consumer has called return()
NoFrame ==
  [form |-> "", n |-> 0, pc |-> "created", fd |-> "none", pos |-> 0,
   bytesRead |-> 0, err |-> "", abandoned |-> FALSE]

\* const fd = fs.openSync(this.isAt, 'r'); const buffer = Buffer.alloc(
\* _chunkSize): alloc throws for a size below 0, outside the try statement
iter_open(f, p, g) ==
  LET r == sys_read(f, p)
  IN IF r.err # "OK" THEN [g EXCEPT !.pc = "done", !.err = r.err]
     ELSE IF g.n < 0 THEN [g EXCEPT !.pc = "done", !.fd = "open", !.err = "ERR_OUT_OF_RANGE"]
     ELSE [g EXCEPT !.pc = "read", !.fd = "open"]

\* bytesRead = fs.readSync(fd, buffer, 0, _chunkSize, null);
\* if (bytesRead > 0) yield buffer.subarray(0, bytesRead)
iter_read(f, p, g, fails) ==
  LET data == sys_read(f, p).data
      k == Min(g.n, Len(data) - g.pos)
  IN IF fails THEN [g EXCEPT !.pc = "finally", !.err = "EIO"]
     ELSE [g EXCEPT !.bytesRead = k, !.pos = g.pos + k,
                    !.pc = IF k > 0 THEN "yield" ELSE "while"]

\* while (bytesRead === _chunkSize)
iter_while(g) ==
  [g EXCEPT !.pc = IF g.bytesRead = g.n THEN "read" ELSE "finally"]

\* finally { fs.closeSync(fd) }
iter_finally(g) == [g EXCEPT !.pc = "done", !.fd = "closed"]

IterCases ==
  {[len |-> len, n |-> n] : len \in 0..MaxFile, n \in 0..MaxChunk}

IterInit ==
  /\ \E c \in IterCases, form \in {"it_bytes_sync", "it_bytes"} :
       /\ fs = (<<>> :> DirE) @@ (<<"a">> :> DirE)
                 @@ (<<"a", "f">> :> FileE(Counting(c.len)))
       /\ rt = [NoFrame EXCEPT !.form = form, !.n = c.n]
  /\ nodes = (1 :> Node("File", <<"a", "f">>, TRUE))
  /\ last = NoCall
  /\ budget = 0

\* the first next(): the body runs from its start
IterOpen ==
  /\ rt.pc = "created"
  /\ rt' = iter_open(fs, nodes[1].pointsTo, rt)
  /\ UNCHANGED <<fs, nodes, last, budget>>

IterRead ==
  /\ rt.pc = "read"
  /\ \E fails \in BOOLEAN : rt' = iter_read(fs, nodes[1].pointsTo, rt, fails)
  /\ UNCHANGED <<fs, nodes, last, budget>>

\* a later next(): the body goes on behind the yield
IterNext ==
  /\ rt.pc = "yield"
  /\ rt' = [rt EXCEPT !.pc = "while"]
  /\ UNCHANGED <<fs, nodes, last, budget>>

IterWhile ==
  /\ rt.pc = "while"
  /\ rt' = iter_while(rt)
  /\ UNCHANGED <<fs, nodes, last, budget>>

IterFinally ==
  /\ rt.pc = "finally"
  /\ rt' = iter_finally(rt)
  /\ UNCHANGED <<fs, nodes, last, budget>>

\* return() on the generator: at a yield the finally block runs, before the
\* first next() the generator just ends
IterReturn ==
  /\ rt.pc \in {"created", "yield"}
  /\ rt' = [rt EXCEPT !.abandoned = TRUE,
                      !.pc = IF rt.pc = "yield" THEN "finally" ELSE "done"]
  /\ UNCHANGED <<fs, nodes, last, budget>>

\* the steps of a consumer that iterates to the end
IterStep ==
  \/ IterOpen
  \/ IterRead
  \/ IterNext
  \/ IterWhile
  \/ IterFinally

IterNextStep ==
  \/ IterStep
  \/ IterReturn

SpecIter == IterInit /\ [][IterNextStep]_vars

\* the generator body runs on whenever it can, and the consumer keeps asking
SpecIterFair == SpecIter /\ WF_vars(IterStep)

\* C30: for every file and every chunk size the iteration ends, and once it
\* has ended, by reaching the end of the file, by a failure or by the
\* consumer abandoning it, no descriptor it opened is open
C30_IterationEnds ==
  /\ <>(rt.pc = "done")
  /\ [](rt.pc = "done" => rt.fd # "open")

\* with chunk size 0 a read has returned 0 bytes and the loop goes on
C30_Witness ==
  /\ rt.n = 0
  /\ rt.pc = "while"
  /\ rt.bytesRead = 0
  /\ rt.fd = "open"
  /\ rt.err = ""
====
